---- MODULE Spec2Model ----
(***************************************************************************)
(* The aggregations of the portfolio backend.  FIFO lot ledgers:           *)
(*   calculateMFLots       src/src/services/lotCalculator.js               *)
(*   calculateNPSHoldings  src/src/services/aggregationService.js          *)
(*   getAnalysisSummary    src/src/services/analysisService.js (MF path)   *)
(* and, each in a section of its own further down, the XIRR solvers, the   *)
(* PPF / FD / EPF running balances, the bank balances and the dashboard    *)
(* asset allocation.                                                       *)
(*                                                                         *)
(* Numbers.  Units are fixed-point with one decimal digit: the integer u   *)
(* stands for u/10 units, so One = 10 is one unit.  Prices (nav, cmp) are  *)
(* whole numbers, hence a cost units*nav is in tenths as well.  The        *)
(* epsilon 1e-8 of the code lies below the resolution, so "x <= 1e-8" is   *)
(* "x <= Eps" with Eps = 0.  All arithmetic is exact; the rounding of IEEE *)
(* doubles is not modelled.                                                *)
(*                                                                         *)
(* Dates are small naturals (a timestamp); NoDate is a date field that is  *)
(* absent or does not parse, for which the code orders by +Infinity.       *)
(*                                                                         *)
(* Text.  A name (fund, scheme, account) is a sequence of tokens; the      *)
(* token "||" is the two-character key delimiter and " " is white space.   *)
(* A transaction type is a string of TypeTexts, with toLowerCase and       *)
(* String.includes given as tables over that set.                          *)
(***************************************************************************)
EXTENDS Integers, Sequences, FiniteSets, TLC

VARIABLES
    transactions,   \* the rows handed to the running call (the table's content)
    fundMaster,     \* price rows: trimmed name -> [cmp, lcp]
    pc,             \* "input" | "mf" | "nps" | "an" | "done"
    called,         \* which function was called: "none" | "mf" | "nps" | "an"
    work,           \* the prepared (mapped, filtered, sorted) transactions
    idx,            \* index in work of the next forEach iteration
    lotsByFund,     \* calculateMFLots: Map key -> lots, in insertion order
    lotsByScheme,   \* calculateNPSHoldings: Map key -> lots, in insertion order
    funds,          \* getAnalysisSummary: per fund [fundName, openLots, closedLots]
    result,         \* what the call returned
    low,            \* XIRR: lower end of the bisection interval
    high,           \* XIRR: upper end of the bisection interval
    mid,            \* XIRR: the last midpoint computed
    returned,       \* the value returned by a call outside the lot ledgers
    balances,       \* PPF / FD / EPF: the running sums, one entry per account
    cache,          \* the CacheStore: store, timers and the runtime's timeouts
    clock,          \* the time, in minutes
    requests,       \* the HTTP requests, in order of arrival
    database        \* the number of updates written to stock_transactions

vars == <<transactions, fundMaster, pc, called, work, idx,
          lotsByFund, lotsByScheme, funds, result,
          low, high, mid, returned, balances,
          cache, clock, requests, database>>

\* The state of the ledger computations, and the state outside them.
ledgerState == <<fundMaster, lotsByFund, lotsByScheme, funds, result>>

solverState == <<low, high, mid>>

serverState == <<cache, clock, requests, database>>

outsideLedger == <<solverState, returned, balances, serverState>>

outsideSolver == <<ledgerState, balances, serverState>>

outsideDeposits == <<ledgerState, solverState, serverState>>

\* ---------------------------------------------------------------- bounds
MaxTxns == 3

\* ------------------------------------------------------------- constants
One == 10
Eps == 0
Infinity == 99
NoDate == 0

\* ---------------------------------------------------------------- helpers
Min(a, b) == IF a < b THEN a ELSE b
Max(a, b) == IF a > b THEN a ELSE b
Abs(a) == IF a < 0 THEN 0 - a ELSE a

RECURSIVE SumSeq(_)
SumSeq(s) == IF s = <<>> THEN 0 ELSE Head(s) + SumSeq(Tail(s))

MapUnits(lots) == [i \in 1..Len(lots) |-> lots[i].units]
MapCost(lots) == [i \in 1..Len(lots) |-> Max(lots[i].cost, 0)]

\* String.prototype.trim on a name: white-space tokens off both ends.
RECURSIVE TrimLeft(_)
TrimLeft(s) == IF s # <<>> /\ Head(s) = " " THEN TrimLeft(Tail(s)) ELSE s

RECURSIVE TrimRight(_)
TrimRight(s) ==
    IF s # <<>> /\ s[Len(s)] = " " THEN TrimRight(SubSeq(s, 1, Len(s) - 1)) ELSE s

Trim(s) == TrimRight(TrimLeft(s))

\* String.prototype.split('||'): the parts between delimiter tokens.
RECURSIVE SplitKey(_, _)
SplitKey(s, part) ==
    IF s = <<>> THEN <<part>>
    ELSE IF Head(s) = "||" THEN <<part>> \o SplitKey(Tail(s), <<>>)
    ELSE SplitKey(Tail(s), Append(part, Head(s)))

\* ------------------------------------------------------ transaction types
TypeTexts ==
    { "", "Buy", "Sell", "Purchase", "SIP", "Switch-In", "Contribution",
      "Allotment", "Dividend", "Redeem", "Withdraw", "Switch-Out", "STP-Out",
      "Charges", "Exit", "Transfer", "Payout", "Bonus" }

\* String(txn.transaction_type || '').toLowerCase()
ToLowerCase(t) ==
    CASE t = "Buy" -> "buy"
      [] t = "Sell" -> "sell"
      [] t = "Purchase" -> "purchase"
      [] t = "SIP" -> "sip"
      [] t = "Switch-In" -> "switch-in"
      [] t = "Contribution" -> "contribution"
      [] t = "Allotment" -> "allotment"
      [] t = "Dividend" -> "dividend"
      [] t = "Redeem" -> "redeem"
      [] t = "Withdraw" -> "withdraw"
      [] t = "Switch-Out" -> "switch-out"
      [] t = "STP-Out" -> "stp-out"
      [] t = "Charges" -> "charges"
      [] t = "Exit" -> "exit"
      [] t = "Transfer" -> "transfer"
      [] t = "Payout" -> "payout"
      [] t = "Bonus" -> "bonus"
      [] t = "Deposit" -> "deposit"
      [] t = "Interest" -> "interest"
      [] t = "Withdrawal" -> "withdrawal"
      [] t = "Maturity" -> "maturity"
      [] t = "Savings" -> "savings"
      [] t = "Demat" -> "demat"
      [] t = "Current" -> "current"
      [] t = "ETF" -> "etf"
      [] t = "Stocks" -> "stocks"
      [] t = "PPF" -> "ppf"
      [] t = "FD" -> "fd"
      [] OTHER -> t

\* String.prototype.includes over the lowered TypeTexts: the keywords of the
\* code's tables that occur in the text as a substring.
KeywordsIn(t) ==
    CASE t = "charges" -> {"charges", "charge"}
      [] t = "withdrawal" -> {"withdrawal", "withdraw"}
      [] t \in {"", "bonus"} -> {}
      [] OTHER -> {t}

Includes(t, keyword) == keyword \in KeywordsIn(t)

\* lotCalculator.js FIFO_SALE_KEYWORDS
FIFO_SALE_KEYWORDS ==
    { "sell", "redeem", "withdraw", "switch out", "switch-out", "switch to",
      "switch-to", "stp out", "stp-out", "charges", "exit", "migration",
      "transfer", "payout" }

\* aggregationService.js FIFO_SALE_KEYWORDS
NPS_FIFO_SALE_KEYWORDS == FIFO_SALE_KEYWORDS \cup {"charge"}

\* ------------------------------------------------------------ lot sorting
\* The comparator of lots.sort(...): order first, then sequence.  With both
\* orders +Infinity the difference is NaN, which is not > 1e-8, so the
\* sequence decides: the same as equal orders.
LotBefore(a, b) ==
    \/ a.order < b.order
    \/ a.order = b.order /\ a.sequence < b.sequence

\* Array.prototype.sort is stable: x goes before the first element it precedes.
RECURSIVE InsertLot(_, _)
InsertLot(x, s) ==
    IF s = <<>> THEN <<x>>
    ELSE IF LotBefore(x, Head(s)) THEN <<x>> \o s
    ELSE <<Head(s)>> \o InsertLot(x, Tail(s))

RECURSIVE SortLotsFrom(_, _)
SortLotsFrom(s, acc) ==
    IF s = <<>> THEN acc ELSE SortLotsFrom(Tail(s), InsertLot(Head(s), acc))

\* Mutant: the comparator reversed (newest lot first).
sortLotsFifo_Reversed(lots) ==
    LET sorted == SortLotsFrom(lots, <<>>)
    IN  [i \in 1..Len(sorted) |-> sorted[Len(sorted) + 1 - i]]

sortLotsFifo(lots) == SortLotsFrom(lots, <<>>)

\* The comparator of the prepared transactions: (effectiveDate, index).
TxnTime(t) == IF t.effectiveDate = NoDate THEN Infinity ELSE t.effectiveDate

\* Mutant: the comparator without the date (arrival order).
TxnBefore_IndexOnly(a, b) == a.index < b.index

TxnBefore(a, b) ==
    \/ TxnTime(a) < TxnTime(b)
    \/ TxnTime(a) = TxnTime(b) /\ a.index < b.index

RECURSIVE InsertTxn(_, _)
InsertTxn(x, s) ==
    IF s = <<>> THEN <<x>>
    ELSE IF TxnBefore(x, Head(s)) THEN <<x>> \o s
    ELSE <<Head(s)>> \o InsertTxn(x, Tail(s))

RECURSIVE SortTxnsFrom(_, _)
SortTxnsFrom(s, acc) ==
    IF s = <<>> THEN acc ELSE SortTxnsFrom(Tail(s), InsertTxn(Head(s), acc))

SortTxns(s) == SortTxnsFrom(s, <<>>)

\* ------------------------------------------------- lotCalculator.js: MF
\* reduceLotUnits.  costPerUnit = cost / units and the cost removed from the
\* lot is deduction * costPerUnit; over the rows of the model the product is
\* a whole number (cost = units x nav, C9_ProportionalCost), so the integer
\* division loses nothing.
\* Mutant: the cost reduced by the units removed (costPerUnit forgotten).
CostPortion_Flat(currentLot, deduction) == deduction

CostPortion(currentLot, deduction) ==
    IF currentLot.units # 0
    THEN (deduction * currentLot.cost) \div currentLot.units
    ELSE 0

RECURSIVE ReduceLoop(_, _)
ReduceLoop(lots, remaining) ==
    IF remaining > Eps /\ lots # <<>>
    THEN LET currentLot == Head(lots)
             deduction == Min(remaining, currentLot.units)
             costPortion == CostPortion(currentLot, deduction)
             reduced == [currentLot EXCEPT !.units = @ - deduction,
                                           !.cost = @ - costPortion]
         IN  IF reduced.units <= Eps
             THEN ReduceLoop(Tail(lots), remaining - deduction)
             ELSE ReduceLoop(<<reduced>> \o Tail(lots), remaining - deduction)
    ELSE lots

reduceLotUnits(lots, unitsToRemove) == ReduceLoop(sortLotsFifo(lots), unitsToRemove)

\* The .map(...) of calculateMFLots: null for a row without a fund name.
MFMapped(txs) ==
    [i \in 1..Len(txs) |->
        [fundName |-> Trim(txs[i].name),
         accountName |-> Trim(txs[i].account),
         type |-> ToLowerCase(txs[i].type),
         units |-> txs[i].units,
         nav |-> txs[i].nav,
         effectiveDate |-> txs[i].date,
         index |-> i - 1]]

MFKept(t) == t.fundName # <<>> /\ Abs(t.units) > Eps

\* mfTransactions: map, filter, sort.
MFPrepare(txs) == SortTxns(SelectSeq(MFMapped(txs), MFKept))

\* Map.has / Map.get / Map.set on a Map kept as a sequence of entries.
KeyIndex(map, key) ==
    IF \E i \in 1..Len(map) : map[i].key = key
    THEN CHOOSE i \in 1..Len(map) : map[i].key = key
    ELSE 0

WithKey(map, key) ==
    IF KeyIndex(map, key) = 0 THEN Append(map, [key |-> key, lots |-> <<>>]) ELSE map

LotsOf(map, key) ==
    IF KeyIndex(map, key) = 0 THEN <<>> ELSE map[KeyIndex(map, key)].lots

NewLot(txn) ==
    [units |-> txn.units,
     cost |-> txn.units * txn.nav,
     order |-> TxnTime(txn),
     sequence |-> txn.index]

\* Mutant: the guard units > 0 dropped.
MFIsBuy_NoSign(txn) == Includes(txn.type, "buy")

MFIsBuy(txn) == Includes(txn.type, "buy") /\ txn.units > 0

MFIsSale(txn) ==
    \/ txn.units < 0
    \/ \E keyword \in FIFO_SALE_KEYWORDS : Includes(txn.type, keyword)

\* One iteration of mfTransactions.forEach.
MFApply(map, txn) ==
    LET fundKey == txn.fundName \o <<"||">> \o txn.accountName
        m == WithKey(map, fundKey)
        k == KeyIndex(m, fundKey)
        lots == m[k].lots
    IN  IF MFIsBuy(txn)
        THEN [m EXCEPT ![k].lots = Append(lots, NewLot(txn))]
        ELSE IF MFIsSale(txn)
        THEN [m EXCEPT ![k].lots = reduceLotUnits(lots, Abs(txn.units))]
        ELSE m

CmpOf(master, name) == IF name \in DOMAIN master THEN master[name].cmp ELSE 0

OpenLot(lot) == lot.units > Eps

\* lotsByFund.forEach: one holding per key that has open lots.
MFHolding(entry, master) ==
    LET parts == SplitKey(entry.key, <<>>)
        fundName == Trim(parts[1])
        openLots == SelectSeq(entry.lots, OpenLot)
        totalUnits == SumSeq(MapUnits(openLots))
        totalCost == SumSeq(MapCost(openLots))
        cmp == CmpOf(master, fundName)
    IN  [fundName |-> fundName,
         accountName |-> parts[2],
         units |-> totalUnits,
         invested |-> totalCost,
         marketValue |-> totalUnits * cmp,
         profit |-> totalUnits * cmp - totalCost,
         cmp |-> cmp]

HasOpenLots(entry) == SelectSeq(entry.lots, OpenLot) # <<>>

MFHoldings(map, master) ==
    LET kept == SelectSeq(map, HasOpenLots)
    IN  [i \in 1..Len(kept) |-> MFHolding(kept[i], master)]

RECURSIVE ApplyAll(_, _, _)
ApplyAll(map, txns, i) ==
    IF i > Len(txns) THEN map ELSE ApplyAll(MFApply(map, txns[i]), txns, i + 1)

\* calculateMFLots as a function of its arguments.
calculateMFLots(txs, master) == MFHoldings(ApplyAll(<<>>, MFPrepare(txs), 1), master)

\* --------------------------------------- aggregationService.js: NPS
\* reduceLotUnits of aggregationService.js, the while loop: a lot is shifted
\* out when its units or its cost are <= 1e-8.
RECURSIVE NPSReduceLoop(_, _)
NPSReduceLoop(lots, remaining) ==
    IF remaining > Eps /\ lots # <<>>
    THEN LET currentLot == Head(lots)
             deduction == Min(remaining, currentLot.units)
             costPortion == CostPortion(currentLot, deduction)
             reduced == [currentLot EXCEPT !.units = @ - deduction,
                                           !.cost = @ - costPortion]
             clamped == [reduced EXCEPT !.units = Max(@, 0), !.cost = Max(@, 0)]
         IN  IF reduced.units <= Eps \/ reduced.cost <= Eps
             THEN NPSReduceLoop(Tail(lots), remaining - deduction)
             ELSE NPSReduceLoop(<<clamped>> \o Tail(lots), remaining - deduction)
    ELSE lots

NPSreduceLotUnits(lots, unitsToRemove) ==
    IF lots = <<>> THEN lots
    ELSE IF unitsToRemove <= Eps THEN lots
    ELSE NPSReduceLoop(sortLotsFifo(lots), unitsToRemove)

\* String.prototype.replace(/\|\|/g, U+2225) on a name: every delimiter token
\* becomes the one-character token PARALLEL TO, written "_par_" here.
EscapeDelimiter(name) ==
    [i \in 1..Len(name) |-> IF name[i] = "||" THEN "_par_" ELSE name[i]]

NPSIsSale(txn) ==
    \/ txn.units < 0
    \/ \E kw \in NPS_FIFO_SALE_KEYWORDS : Includes(txn.type, kw)

\* preparedTransactions of calculateNPSHoldings: the same map, filter and
\* sort as calculateMFLots, over scheme_name.
NPSPrepare(txs) == SortTxns(SelectSeq(MFMapped(txs), MFKept))

\* One iteration of preparedTransactions.forEach.
NPSApply(map, txn) ==
    LET key == EscapeDelimiter(txn.fundName) \o <<"||">> \o EscapeDelimiter(txn.accountName)
        m == WithKey(map, key)
        k == KeyIndex(m, key)
        lots == m[k].lots
    IN  IF MFIsBuy(txn)
        THEN [m EXCEPT ![k].lots = Append(lots, NewLot(txn))]
        ELSE IF NPSIsSale(txn)
        THEN [m EXCEPT ![k].lots = NPSreduceLotUnits(lots, Abs(txn.units))]
        ELSE m

NPSHolding(entry, master) ==
    LET parts == SplitKey(entry.key, <<>>)
        schemeName == parts[1]
        openLots == SelectSeq(entry.lots, OpenLot)
        totalUnits == SumSeq(MapUnits(openLots))
        totalCost == SumSeq(MapCost(openLots))
        cmp == CmpOf(master, schemeName)
    IN  [fundName |-> schemeName,
         accountName |-> parts[2],
         units |-> totalUnits,
         invested |-> totalCost,
         marketValue |-> totalUnits * cmp,
         profit |-> totalUnits * cmp - totalCost,
         cmp |-> cmp]

NPSHoldings(map, master) ==
    LET kept == SelectSeq(map, HasOpenLots)
    IN  [i \in 1..Len(kept) |-> NPSHolding(kept[i], master)]

\* ------------------------------- analysisService.js: getAnalysisSummary
\* The distinct values of a sequence in order of first appearance (the key
\* order of a Map filled by has/set).
RECURSIVE FirstSeen(_, _)
FirstSeen(s, acc) ==
    IF s = <<>> THEN acc
    ELSE IF \E i \in 1..Len(acc) : acc[i] = Head(s)
         THEN FirstSeen(Tail(s), acc)
         ELSE FirstSeen(Tail(s), Append(acc, Head(s)))

HasFundName(row) == Trim(row.name) # <<>>

\* groupByFund: the keys, and the rows of one fund.
GroupFunds(txs) ==
    LET named == SelectSeq(txs, HasFundName)
    IN  FirstSeen([i \in 1..Len(named) |-> Trim(named[i].name)], <<>>)

RowsOfFund(txs, fundName) == SelectSeq(txs, LAMBDA row : Trim(row.name) = fundName)

\* lotsByAccount of one fund: the keys, and the rows of one account.
GroupAccounts(rows) == FirstSeen([i \in 1..Len(rows) |-> Trim(rows[i].account)], <<>>)

RowsOfAccount(rows, accountName) ==
    SelectSeq(rows, LAMBDA row : Trim(row.account) = accountName)

\* `sorted` of one account: __sequence is the index within the account's rows.
ANSorted(accountTxns) == SortTxns(SelectSeq(MFMapped(accountTxns), MFKept))

RECURSIVE Flatten(_)
Flatten(ss) == IF ss = <<>> THEN <<>> ELSE Head(ss) \o Flatten(Tail(ss))

\* The order in which getAnalysisSummary visits the MF transactions: fund by
\* fund, within a fund account by account, within an account sorted.
ANFundWork(rows) ==
    LET accounts == GroupAccounts(rows)
    IN  Flatten([a \in 1..Len(accounts) |-> ANSorted(RowsOfAccount(rows, accounts[a]))])

ANWork(txs) ==
    LET names == GroupFunds(txs)
    IN  Flatten([f \in 1..Len(names) |-> ANFundWork(RowsOfFund(txs, names[f]))])

ANInitFunds(txs) ==
    LET names == GroupFunds(txs)
    IN  [f \in 1..Len(names) |->
            [fundName |-> names[f], openLots |-> <<>>, closedLots |-> <<>>]]

\* consumeLots, the while loop; returns the lots left, the portions consumed
\* and the units that could not be met.
RECURSIVE ConsumeLoop(_, _, _)
ConsumeLoop(lots, remaining, consumed) ==
    IF remaining > Eps /\ lots # <<>>
    THEN LET currentLot == Head(lots)
         IN  IF currentLot.units <= Eps
             THEN ConsumeLoop(Tail(lots), remaining, consumed)
             ELSE LET available == currentLot.units
                      deduction == Min(remaining, available)
                      costPortion == (deduction * currentLot.cost) \div available
                      reduced == [currentLot EXCEPT !.units = @ - deduction,
                                                    !.cost = @ - costPortion]
                      portion == [units |-> deduction, cost |-> costPortion]
                  IN  IF reduced.units <= Eps \/ reduced.cost <= Eps
                      THEN ConsumeLoop(Tail(lots), remaining - deduction,
                                       Append(consumed, portion))
                      ELSE ConsumeLoop(<<reduced>> \o Tail(lots), remaining - deduction,
                                       Append(consumed, portion))
    ELSE [lots |-> lots, consumed |-> consumed, remaining |-> remaining]

consumeLots(lots, unitsToRemove) == ConsumeLoop(sortLotsFifo(lots), unitsToRemove, <<>>)

\* openLots.push({...}).  boughtBy is a history field: the code's lot does not
\* record its account, and nothing below reads the field but the properties.
ANNewLot(txn) ==
    [units |-> txn.units,
     cost |-> txn.units * txn.nav,
     nav |-> txn.nav,
     order |-> TxnTime(txn),
     sequence |-> txn.index,
     boughtBy |-> txn.accountName]

ANIsBuy(txn) == txn.type = "buy" /\ txn.units > 0

ANIsSell(txn) == txn.type = "sell"

\* The closed record of one sale, from the portions it consumed.
ClosedLot(txn, consumed) ==
    LET totalInvested == SumSeq([i \in 1..Len(consumed) |-> consumed[i].cost])
        totalUnitsSold == SumSeq([i \in 1..Len(consumed) |-> consumed[i].units])
        saleAmount == txn.nav * totalUnitsSold
    IN  [invested_amount |-> totalInvested,
         sale_amount |-> saleAmount,
         gain |-> saleAmount - totalInvested,
         units |-> totalUnitsSold]

\* One iteration of sorted.forEach on the fund's openLots / closedLots.
ANApplyFund(fund, txn) ==
    IF Abs(txn.units) <= Eps \/ txn.nav <= 0 THEN fund
    ELSE IF ANIsBuy(txn)
    THEN [fund EXCEPT !.openLots = Append(@, ANNewLot(txn))]
    ELSE IF ANIsSell(txn)
    THEN LET r == consumeLots(fund.openLots, Abs(txn.units))
             closed == ClosedLot(txn, r.consumed)
         IN  IF r.consumed = <<>> THEN [fund EXCEPT !.openLots = r.lots]
             ELSE IF closed.sale_amount > 0
             THEN [fund EXCEPT !.openLots = r.lots,
                               !.closedLots = Append(@, closed)]
             ELSE [fund EXCEPT !.openLots = r.lots]
    ELSE fund

ANApply(fs, txn) ==
    [f \in 1..Len(fs) |->
        IF fs[f].fundName = txn.fundName THEN ANApplyFund(fs[f], txn) ELSE fs[f]]

ValuationPrice(master, fundName) ==
    LET cmp == IF fundName \in DOMAIN master THEN master[fundName].cmp ELSE 0
        lcp == IF fundName \in DOMAIN master THEN master[fundName].lcp ELSE 0
    IN  IF cmp > 0 THEN cmp ELSE IF lcp > 0 THEN lcp ELSE 0

\* "Aggregate open lots for active (only if no closed lots)".
ANHasActive(fund) ==
    LET openLotsFiltered == SelectSeq(fund.openLots, OpenLot)
    IN  /\ openLotsFiltered # <<>>
        /\ fund.closedLots = <<>>
        /\ SumSeq(MapUnits(openLotsFiltered)) >= One

ANActive(fund, master) ==
    LET openLotsFiltered == SelectSeq(fund.openLots, OpenLot)
        totalUnits == SumSeq(MapUnits(openLotsFiltered))
        totalCost == SumSeq(MapCost(openLotsFiltered))
        valuationPrice == ValuationPrice(master, fund.fundName)
    IN  [fund_short_name |-> fund.fundName,
         units |-> totalUnits,
         invested |-> totalCost,
         marketValue |-> totalUnits * valuationPrice,
         cmp |-> valuationPrice,
         urp |-> totalUnits * valuationPrice - totalCost]

ANHasClosed(fund) == fund.closedLots # <<>>

ANClosed(fund) ==
    LET c == fund.closedLots
    IN  [fund_short_name |-> fund.fundName,
         invested |-> SumSeq([i \in 1..Len(c) |-> c[i].invested_amount]),
         closedValue |-> SumSeq([i \in 1..Len(c) |-> c[i].sale_amount]),
         urp |-> SumSeq([i \in 1..Len(c) |-> c[i].gain]),
         units |-> SumSeq([i \in 1..Len(c) |-> c[i].units])]

mfActiveOf(fs, master) ==
    LET kept == SelectSeq(fs, ANHasActive)
    IN  [i \in 1..Len(kept) |-> ANActive(kept[i], master)]

mfClosedOf(fs) ==
    LET kept == SelectSeq(fs, ANHasClosed)
    IN  [i \in 1..Len(kept) |-> ANClosed(kept[i])]

RECURSIVE ANApplyAll(_, _, _)
ANApplyAll(fs, txns, i) ==
    IF i > Len(txns) THEN fs ELSE ANApplyAll(ANApply(fs, txns[i]), txns, i + 1)

\* The MF part of getAnalysisSummary as a function of the fetched rows.
ANFinalFunds(txs) == ANApplyAll(ANInitFunds(txs), ANWork(txs), 1)

\* ------------------------------------------------------------ the machine
NotReturned == [kind |-> "none", value |-> 0]

\* constructor() of CacheStore; timeouts are the timers the runtime holds.
NewCacheStore == [store |-> <<>>, timers |-> <<>>, timeouts |-> <<>>]

NoResult ==
    [holdings |-> <<>>, marketValue |-> 0, invested |-> 0,
     mfActive |-> <<>>, mfClosed |-> <<>>]

InitWith(masters) ==
    /\ transactions = <<>>
    /\ fundMaster \in masters
    /\ pc = "input"
    /\ called = "none"
    /\ work = <<>>
    /\ idx = 1
    /\ lotsByFund = <<>>
    /\ lotsByScheme = <<>>
    /\ funds = <<>>
    /\ result = NoResult
    /\ low = 0
    /\ high = 0
    /\ mid = 0
    /\ returned = NotReturned
    /\ balances = <<>>
    /\ cache = NewCacheStore
    /\ clock = 0
    /\ requests = <<>>
    /\ database = 0

\* A row arrives in the table before the call.
AddTxn(rows, max) ==
    /\ pc = "input"
    /\ Len(transactions) < max
    /\ \E row \in rows : transactions' = Append(transactions, row)
    /\ UNCHANGED <<fundMaster, pc, called, work, idx, lotsByFund, lotsByScheme,
                   funds, result>>
    /\ UNCHANGED outsideLedger

\* calculateMFLots: entry (map/filter/sort), one forEach iteration, return.
CallMF ==
    /\ pc = "input"
    /\ pc' = "mf"
    /\ called' = "mf"
    /\ work' = MFPrepare(transactions)
    /\ idx' = 1
    /\ UNCHANGED <<transactions, fundMaster, lotsByFund, lotsByScheme, funds, result>>
    /\ UNCHANGED outsideLedger

StepMF ==
    /\ pc = "mf"
    /\ idx <= Len(work)
    /\ lotsByFund' = MFApply(lotsByFund, work[idx])
    /\ idx' = idx + 1
    /\ UNCHANGED <<transactions, fundMaster, pc, called, work, lotsByScheme, funds,
                   result>>
    /\ UNCHANGED outsideLedger

SumField(hs, f) == SumSeq([i \in 1..Len(hs) |-> hs[i][f]])

ReturnMF ==
    /\ pc = "mf"
    /\ idx > Len(work)
    /\ LET holdings == MFHoldings(lotsByFund, fundMaster)
       IN  result' = [NoResult EXCEPT !.holdings = holdings,
                                      !.marketValue = SumField(holdings, "marketValue"),
                                      !.invested = SumField(holdings, "invested")]
    /\ pc' = "done"
    /\ UNCHANGED <<transactions, fundMaster, called, work, idx, lotsByFund,
                   lotsByScheme, funds>>
    /\ UNCHANGED outsideLedger

\* calculateNPSHoldings.
CallNPS ==
    /\ pc = "input"
    /\ pc' = "nps"
    /\ called' = "nps"
    /\ work' = NPSPrepare(transactions)
    /\ idx' = 1
    /\ UNCHANGED <<transactions, fundMaster, lotsByFund, lotsByScheme, funds, result>>
    /\ UNCHANGED outsideLedger

StepNPS ==
    /\ pc = "nps"
    /\ idx <= Len(work)
    /\ lotsByScheme' = NPSApply(lotsByScheme, work[idx])
    /\ idx' = idx + 1
    /\ UNCHANGED <<transactions, fundMaster, pc, called, work, lotsByFund, funds,
                   result>>
    /\ UNCHANGED outsideLedger

ReturnNPS ==
    /\ pc = "nps"
    /\ idx > Len(work)
    /\ LET holdings == NPSHoldings(lotsByScheme, fundMaster)
       IN  result' = [NoResult EXCEPT !.holdings = holdings,
                                      !.marketValue = SumField(holdings, "marketValue"),
                                      !.invested = SumField(holdings, "invested")]
    /\ pc' = "done"
    /\ UNCHANGED <<transactions, fundMaster, called, work, idx, lotsByFund,
                   lotsByScheme, funds>>
    /\ UNCHANGED outsideLedger

\* getAnalysisSummary, the mutual-fund part.
CallAN ==
    /\ pc = "input"
    /\ pc' = "an"
    /\ called' = "an"
    /\ work' = ANWork(transactions)
    /\ funds' = ANInitFunds(transactions)
    /\ idx' = 1
    /\ UNCHANGED <<transactions, fundMaster, lotsByFund, lotsByScheme, result>>
    /\ UNCHANGED outsideLedger

StepAN ==
    /\ pc = "an"
    /\ idx <= Len(work)
    /\ funds' = ANApply(funds, work[idx])
    /\ idx' = idx + 1
    /\ UNCHANGED <<transactions, fundMaster, pc, called, work, lotsByFund,
                   lotsByScheme, result>>
    /\ UNCHANGED outsideLedger

ReturnAN ==
    /\ pc = "an"
    /\ idx > Len(work)
    /\ result' = [NoResult EXCEPT !.mfActive = mfActiveOf(funds, fundMaster),
                                  !.mfClosed = mfClosedOf(funds)]
    /\ pc' = "done"
    /\ UNCHANGED <<transactions, fundMaster, called, work, idx, lotsByFund,
                   lotsByScheme, funds>>
    /\ UNCHANGED outsideLedger

\* ------------------------------------------------------- the input rows
F == <<"F">>
A1 == <<"A1">>
A2 == <<"A2">>

Row(name, account, type, units, nav, date) ==
    [name |-> name, account |-> account, type |-> type,
     units |-> units, nav |-> nav, date |-> date]

\* One ledger (F, A1): rows of 3 units or of -2 units under either type, free
\* or priced, dated or not.
LedgerRows ==
    { Row(F, A1, type, units, nav, date) :
        type \in {"Buy", "Sell"}, units \in {0 - 2 * One, 3 * One},
        nav \in {0, 5}, date \in {NoDate, 1} }

\* One ledger (F, A1) with the lots of the FIFO example: 100 @ 10 on day 1,
\* 50 @ 12 on day 2, a sale of 120 on day 3, and their neighbours.
FifoBuys ==
    { Row(F, A1, "Buy", units, nav, date) :
        units \in {50 * One, 100 * One}, nav \in {10, 12}, date \in {1, 2} }

FifoSales ==
    { Row(F, A1, "Sell", units, 12, date) :
        units \in {50 * One, 120 * One}, date \in {2, 3} }

FifoRows ==
    FifoBuys \cup FifoSales
    \cup { Row(F, A1, "Sell", 0 - 50 * One, 12, 3), Row(F, A1, "Buy", 50 * One, 10, NoDate) }

\* One fund in two accounts: buys of 0.5, 50 or 100 units, sales of 0.5 or 50.
AccountBuys ==
    { Row(F, account, "Buy", units, nav, 1) :
        account \in {A1, A2}, units \in {One \div 2, 50 * One, 100 * One},
        nav \in {10, 12} }

AccountSales ==
    { Row(F, account, "Sell", units, 12, date) :
        account \in {A1, A2}, units \in {0 - 50 * One, 0 - (One \div 2)},
        date \in {1, 2} }

AccountRows == AccountBuys \cup AccountSales

\* One ledger, every type text, units of either sign.
TypeRows ==
    { Row(F, A1, type, units, 10, 1) : type \in TypeTexts, units \in {0 - One, One} }

Masters == { [n \in {F} |-> [cmp |-> 15, lcp |-> 14]] }

MastersLcp == Masters \cup { [n \in {F} |-> [cmp |-> 0, lcp |-> 14]] }

\* --------------------------------------------------------- specifications
MaxLedgerTxns == 3
MaxAccountTxns == 3
MaxTypeTxns == 2

Init == InitWith(Masters)

\* The three ledger computations over one (fund, account) ledger.
Next ==
    \/ AddTxn(LedgerRows, MaxLedgerTxns)
    \/ CallMF \/ StepMF \/ ReturnMF
    \/ CallNPS \/ StepNPS \/ ReturnNPS
    \/ CallAN \/ StepAN \/ ReturnAN

Spec == Init /\ [][Next]_vars

\* calculateMFLots over the rows of the FIFO example.
NextFifo ==
    \/ AddTxn(FifoRows, MaxTxns)
    \/ CallMF \/ StepMF \/ ReturnMF

SpecFifo == Init /\ [][NextFifo]_vars

\* getAnalysisSummary over one fund held in two accounts.
InitAccounts == InitWith(MastersLcp)

NextAccounts ==
    \/ AddTxn(AccountRows, MaxAccountTxns)
    \/ CallAN \/ StepAN \/ ReturnAN

SpecAccounts == InitAccounts /\ [][NextAccounts]_vars

\* calculateMFLots and getAnalysisSummary over every transaction type.
NextTypes ==
    \/ AddTxn(TypeRows, MaxTypeTxns)
    \/ CallMF \/ StepMF \/ ReturnMF
    \/ CallAN \/ StepAN \/ ReturnAN

SpecTypes == Init /\ [][NextTypes]_vars

\* ================================================================ claims
\* Every lot of the running call, whichever structure holds it.
LotsIn(mf, nps, fs) ==
    Flatten([i \in 1..Len(mf) |-> mf[i].lots])
    \o Flatten([i \in 1..Len(nps) |-> nps[i].lots])
    \o Flatten([f \in 1..Len(fs) |-> fs[f].openLots])

OpenUnitsIn(mf, nps, fs) == SumSeq(MapUnits(LotsIn(mf, nps, fs)))

AllLots == LotsIn(lotsByFund, lotsByScheme, funds)

OpenUnits == OpenUnitsIn(lotsByFund, lotsByScheme, funds)

Stepping == pc \in {"mf", "nps", "an"} /\ idx <= Len(work) /\ idx' = idx + 1

\* The units of the sale that the iteration about to run applies, 0 if it
\* applies none.
AppliedSaleUnits ==
    IF idx > Len(work) THEN 0
    ELSE LET txn == work[idx]
         IN  IF pc = "mf" /\ ~MFIsBuy(txn) /\ MFIsSale(txn) THEN Abs(txn.units)
             ELSE IF pc = "nps" /\ ~MFIsBuy(txn) /\ NPSIsSale(txn) THEN Abs(txn.units)
             ELSE IF pc = "an" /\ txn.nav > 0 /\ ~ANIsBuy(txn) /\ ANIsSell(txn)
                  THEN Abs(txn.units)
             ELSE 0

\* C1: in calculateMFLots, calculateNPSHoldings and the MF path of
\* getAnalysisSummary, after every transaction applied to a ledger (buys and
\* sales in any order, oversells included) every open lot has units >= 0 and
\* cost >= 0, and the totals returned are not negative.
C1_LotsNonNegative ==
    /\ \A i \in 1..Len(AllLots) : AllLots[i].units >= 0 /\ AllLots[i].cost >= 0
    /\ OpenUnits >= 0
    /\ \A i \in 1..Len(result.holdings) :
          result.holdings[i].units >= 0 /\ result.holdings[i].invested >= 0
    /\ \A i \in 1..Len(result.mfActive) :
          result.mfActive[i].units >= 0 /\ result.mfActive[i].invested >= 0
    /\ result.invested >= 0

\* A priced buy, then two sales that together exceed it, all applied.
C1_Witness ==
    /\ pc = "done"
    /\ called = "nps"
    /\ Len(work) = 3
    /\ MFIsBuy(work[1]) /\ work[1].nav > 0
    /\ NPSIsSale(work[2]) /\ NPSIsSale(work[3])
    /\ Abs(work[2].units) < work[1].units
    /\ Abs(work[2].units) + Abs(work[3].units) > work[1].units

\* C7 (as claimed): a sale of u units applied to a ledger holding U >= u open
\* units leaves exactly U - u units, in all three computations and also for
\* lots whose cost basis is zero.
C7_SaleLeavesDifference ==
    [][(Stepping /\ AppliedSaleUnits > 0 /\ AppliedSaleUnits <= OpenUnits)
          => OpenUnitsIn(lotsByFund', lotsByScheme', funds') = OpenUnits - AppliedSaleUnits]_vars

\* ---------------------------------------------------------------- FIFO
OrigUnits(lot) == transactions[lot.sequence + 1].units

PurchasePrice(lot) == transactions[lot.sequence + 1].nav

FifoExample ==
    << Row(F, A1, "Buy", 100 * One, 10, 1),
       Row(F, A1, "Buy", 50 * One, 12, 2),
       Row(F, A1, "Sell", 120 * One, 12, 3) >>

\* C2: in calculateMFLots a sale consumes the open lots of its ledger in
\* ascending (effective date, input sequence) order: the lots of a ledger are
\* kept in that order and only the earliest open lot can have lost units; and
\* Buy 100@10 (day 1), Buy 50@12 (day 2), Sell 120 (day 3) returns one holding
\* of 30 units with invested 360.
C2_FifoOrder ==
    called = "mf" =>
        /\ \A k \in 1..Len(lotsByFund) :
              \A i \in 2..Len(lotsByFund[k].lots) :
                  /\ lotsByFund[k].lots[i].units = OrigUnits(lotsByFund[k].lots[i])
                  /\ LotBefore(lotsByFund[k].lots[i - 1], lotsByFund[k].lots[i])
        /\ (pc = "done" /\ transactions = FifoExample) =>
              /\ Len(result.holdings) = 1
              /\ result.holdings[1].units = 30 * One
              /\ result.holdings[1].invested = 360 * One

C2_Witness ==
    /\ pc = "done"
    /\ called = "mf"
    /\ transactions = FifoExample
    /\ Len(lotsByFund) = 1
    /\ Len(lotsByFund[1].lots) = 1
    /\ lotsByFund[1].lots[1].units = 30 * One

\* The permutations of 1..n, and a sequence rearranged by one.
Perms(n) == { p \in [1..n -> 1..n] : \A i, j \in 1..n : p[i] = p[j] => i = j }

Permuted(txs, p) == [i \in 1..Len(txs) |-> txs[p[i]]]

DistinctDates(txs) ==
    \A i, j \in 1..Len(txs) : i # j => txs[i].date # txs[j].date

Summary(holdings) ==
    [i \in 1..Len(holdings) |->
        <<holdings[i].units, holdings[i].invested, holdings[i].marketValue>>]

\* C6: for rows of one ledger with pairwise distinct effective dates,
\* calculateMFLots returns the same holding (units, invested, marketValue) for
\* every permutation of the input array; and the transactions are applied in
\* ascending effective date (undated last), equal dates in ascending input
\* index.
C6_ArrivalOrderIrrelevant ==
    called = "mf" =>
        /\ (pc = "done" /\ DistinctDates(transactions)) =>
              \A p \in Perms(Len(transactions)) :
                  Summary(calculateMFLots(Permuted(transactions, p), fundMaster))
                      = Summary(result.holdings)
        /\ \A i, j \in 1..Len(work) :
              i < j =>
                  LET ti == IF work[i].effectiveDate = NoDate THEN Infinity
                            ELSE work[i].effectiveDate
                      tj == IF work[j].effectiveDate = NoDate THEN Infinity
                            ELSE work[j].effectiveDate
                  IN  ti < tj \/ (ti = tj /\ work[i].index < work[j].index)

\* Three rows that arrive latest first, a sale among them, and a holding left.
C6_Witness ==
    /\ pc = "done"
    /\ called = "mf"
    /\ Len(transactions) = 3
    /\ DistinctDates(transactions)
    /\ transactions[1].date = 3 /\ transactions[2].date = 2 /\ transactions[3].date = 1
    /\ transactions[1].type = "Sell"
    /\ result.holdings # <<>>
    /\ result.holdings[1].units < transactions[2].units + transactions[3].units

\* C9: in calculateMFLots a partial consumption removes cost in proportion to
\* the units removed, so every lot keeps its purchase price as unit cost
\* (cost = units x price), and a holding's invested is the sum over its open
\* lots of remaining units x purchase price.
C9_ProportionalCost ==
    called = "mf" =>
        /\ \A k \in 1..Len(lotsByFund) :
              \A i \in 1..Len(lotsByFund[k].lots) :
                  lotsByFund[k].lots[i].cost
                      = lotsByFund[k].lots[i].units * PurchasePrice(lotsByFund[k].lots[i])
        /\ pc = "done" =>
              LET kept == SelectSeq(lotsByFund, HasOpenLots)
              IN  /\ Len(result.holdings) = Len(kept)
                  /\ \A k \in 1..Len(kept) :
                        result.holdings[k].invested
                            = SumSeq([i \in 1..Len(kept[k].lots) |->
                                        kept[k].lots[i].units * PurchasePrice(kept[k].lots[i])])

\* A priced lot that a sale has consumed in part, in the holdings returned.
C9_Witness ==
    /\ pc = "done"
    /\ called = "mf"
    /\ result.holdings # <<>>
    /\ \E i \in 1..Len(lotsByFund[1].lots) :
          /\ lotsByFund[1].lots[i].units < OrigUnits(lotsByFund[1].lots[i])
          /\ lotsByFund[1].lots[i].cost > 0

\* ------------------------------------------------------------- accounts
\* The active records getAnalysisSummary returns when it is given the rows of
\* one account of one fund only, account after account, fund after fund.
IsolatedActive(txs, master) ==
    LET names == GroupFunds(txs)
        ofFund(f) == RowsOfFund(txs, names[f])
        ofAccount(f, a) == RowsOfAccount(ofFund(f), GroupAccounts(ofFund(f))[a])
    IN  Flatten([f \in 1..Len(names) |->
            Flatten([a \in 1..Len(GroupAccounts(ofFund(f))) |->
                mfActiveOf(ANFinalFunds(ofAccount(f, a)), master)])])

\* C3 (as claimed): in getAnalysisSummary the positions of one fund in
\* different accounts are independent: the active records are those of each
\* account taken alone (two accounts buying 100@10 each give two records of
\* 100 units and invested 1000), so no sale consumes another account's lots.
C3_AccountIsolation ==
    (pc = "done" /\ called = "an") =>
        result.mfActive = IsolatedActive(transactions, fundMaster)

\* C4 (as claimed): a buy of u1 units at p followed in the same account by a
\* sale of u2 < u1 units at s makes getAnalysisSummary return exactly one
\* active record (units u1-u2, invested (u1-u2)*p, marketValue (u1-u2)*cmp)
\* and exactly one closed record (units u2, invested u2*p, closedValue u2*s).
C4_PartialExit ==
    ( /\ pc = "done" /\ called = "an"
      /\ Len(transactions) = 2
      /\ transactions[1].type = "Buy" /\ transactions[2].type = "Sell"
      /\ transactions[1].account = transactions[2].account
      /\ transactions[1].date <= transactions[2].date
      /\ transactions[1].units > 0 /\ transactions[1].nav > 0
      /\ transactions[2].nav > 0
      /\ Abs(transactions[2].units) > 0
      /\ Abs(transactions[2].units) < transactions[1].units
      /\ fundMaster[F].cmp > 0 )
    => LET u1 == transactions[1].units
           u2 == Abs(transactions[2].units)
           p == transactions[1].nav
           s == transactions[2].nav
       IN  /\ Len(result.mfActive) = 1
           /\ Len(result.mfClosed) = 1
           /\ result.mfActive[1].units = u1 - u2
           /\ result.mfActive[1].invested = (u1 - u2) * p
           /\ result.mfActive[1].marketValue = (u1 - u2) * fundMaster[F].cmp
           /\ result.mfClosed[1].units = u2
           /\ result.mfClosed[1].invested = u2 * p
           /\ result.mfClosed[1].closedValue = u2 * s

\* The buy keywords and the sell keywords of the specification's table.
SpecBuyKeywords ==
    {"buy", "purchase", "sip", "switch-in", "contribution", "allotment", "dividend"}

SpecSellKeywords ==
    {"sell", "redeem", "withdraw", "switch-out", "stp-out", "charges", "exit",
     "transfer", "payout"}

HasKeyword(type, keywords) == \E kw \in keywords : Includes(type, kw)

\* C5 (as claimed): a fund held in one account whose transactions are all
\* buys (units > 0, nav > 0) gets exactly one active record, with units and
\* invested the sums over its buys, and no closed record.
C5_OnlyBuys ==
    ( /\ pc = "done" /\ called = "an"
      /\ transactions # <<>>
      /\ \A i \in 1..Len(transactions) :
            /\ transactions[i].account = transactions[1].account
            /\ HasKeyword(ToLowerCase(transactions[i].type), SpecBuyKeywords)
            /\ transactions[i].units > 0
            /\ transactions[i].nav > 0 )
    => /\ Len(result.mfActive) = 1
       /\ result.mfActive[1].units
             = SumSeq([i \in 1..Len(transactions) |-> transactions[i].units])
       /\ result.mfActive[1].invested
             = SumSeq([i \in 1..Len(transactions) |->
                          transactions[i].units * transactions[i].nav])
       /\ result.mfClosed = <<>>

\* The open units of one (fund, account) ledger: in calculateMFLots the lots
\* under the key, in getAnalysisSummary the fund's lots bought by the account.
HeldIn(mf, fs, fundName, accountName) ==
    SumSeq(MapUnits(LotsOf(mf, fundName \o <<"||">> \o accountName)))
    + SumSeq([f \in 1..Len(fs) |->
                IF fs[f].fundName = fundName
                THEN SumSeq(MapUnits(SelectSeq(fs[f].openLots,
                                LAMBDA lot : lot.boughtBy = accountName)))
                ELSE 0])

Accounts == {A1, A2}

\* C8 (as claimed): a sale that asks for more units than its ledger holds
\* empties that ledger and the excess is dropped, so no other ledger loses
\* units to it; and a buy applied afterwards is held in full.
C8_OversellDropped ==
    [][(Stepping /\ pc \in {"mf", "an"}) =>
          LET txn == work[idx]
              held(a) == HeldIn(lotsByFund, funds, txn.fundName, a)
              heldAfter(a) == HeldIn(lotsByFund', funds', txn.fundName, a)
              isBuy == IF pc = "mf" THEN MFIsBuy(txn) ELSE txn.nav > 0 /\ ANIsBuy(txn)
          IN  /\ (AppliedSaleUnits > held(txn.accountName)) =>
                    /\ heldAfter(txn.accountName) = 0
                    /\ \A a \in Accounts \ {txn.accountName} : heldAfter(a) = held(a)
              /\ isBuy => heldAfter(txn.accountName) = held(txn.accountName) + txn.units
       ]_vars

\* ---------------------------------------------------- transaction types
LotCountIn(mf, fs) == Len(LotsIn(mf, <<>>, fs))

\* C10 (as claimed): in calculateMFLots and getAnalysisSummary a transaction
\* with units > 0 whose type text contains a buy keyword of the table opens a
\* new lot, and one whose type text contains a sell keyword consumes lots.
C10_KeywordTable ==
    [][(Stepping /\ pc \in {"mf", "an"}) =>
          LET txn == work[idx]
              after == OpenUnitsIn(lotsByFund', <<>>, funds')
          IN  /\ (txn.units > 0 /\ HasKeyword(txn.type, SpecBuyKeywords)) =>
                    /\ LotCountIn(lotsByFund', funds') = LotCountIn(lotsByFund, funds) + 1
                    /\ after = OpenUnits + txn.units
              /\ HasKeyword(txn.type, SpecSellKeywords) =>
                    after = Max(OpenUnits - Abs(txn.units), 0)
       ]_vars

\* C11 (as claimed): in calculateMFLots and getAnalysisSummary a transaction
\* whose type text is absent or contains no keyword of the table is classified
\* by the sign of its units: positive units open a lot, negative units consume
\* lots; it is never ignored.
C11_SignFallback ==
    [][(Stepping /\ pc \in {"mf", "an"}) =>
          LET txn == work[idx]
              after == OpenUnitsIn(lotsByFund', <<>>, funds')
              noKeyword == ~HasKeyword(txn.type, SpecBuyKeywords \cup SpecSellKeywords)
          IN  /\ (noKeyword /\ txn.units > 0) =>
                    /\ LotCountIn(lotsByFund', funds') = LotCountIn(lotsByFund, funds) + 1
                    /\ after = OpenUnits + txn.units
              /\ (noKeyword /\ txn.units < 0) =>
                    after = Max(OpenUnits - Abs(txn.units), 0)
       ]_vars

\* ================================================================== XIRR
\*   calculateXirr   src/src/services/analysisService.js
\*   calculateXIRR   src/src/services/stockService.js
\*   calculateXIRR   src/src/services/notificationService.js
\*
\* Rates are fixed-point with five decimal digits: the integer m stands for
\* the rate m / RateScale, so -0.9999 is LowRate and 100 is HighRate, and the
\* midpoint (low + high) / 2 is taken on that grid.  Amounts are in hundreds
\* of the currency unit (-10 is -1000).  Dates are day numbers, NoDate an
\* invalid Date.  A non-finite or absent amount is not modelled apart from
\* the amount 0: calculateXirr filters both out and toNumber maps both to 0.
RateScale == 100000
AmountUnit == 100
LowRate == 0 - 99990
HighRate == 100 * RateScale
MaxIterations == 100
XIRR_MS_PER_YEAR == 365

\* 1e-6 in amount units is 1 / InvTolerance.
InvTolerance == 1000000 * AmountUnit

RECURSIVE Pow(_, _)
Pow(b, e) == IF e = 0 THEN 1 ELSE b * Pow(b, e - 1)

\* The comparator (a, b) => a.date - b.date: negative when a is earlier; with
\* an invalid Date the difference is NaN, which sort takes for "not before".
FlowBefore(a, b) == a.date # NoDate /\ b.date # NoDate /\ a.date < b.date

RECURSIVE InsertFlow(_, _)
InsertFlow(x, s) ==
    IF s = <<>> THEN <<x>>
    ELSE IF FlowBefore(x, Head(s)) THEN <<x>> \o s
    ELSE <<Head(s)>> \o InsertFlow(x, Tail(s))

RECURSIVE SortFlowsFrom(_, _)
SortFlowsFrom(s, acc) ==
    IF s = <<>> THEN acc ELSE SortFlowsFrom(Tail(s), InsertFlow(Head(s), acc))

SortFlows(s) == SortFlowsFrom(s, <<>>)

\* The filter of calculateXirr: finite, non-zero amount and a valid date.
XirrKept(cf) == cf.amount # 0 /\ cf.date # NoDate

\* cashflows of calculateXirr (map, filter, sort) and of calculateXIRR (map,
\* sort: nothing is filtered).
XirrCashflows(flows) == SortFlows(SelectSeq(flows, XirrKept))

XIRRCashflows(flows) == SortFlows(flows)

\* (cf.date - baseDate) / XIRR_MS_PER_YEAR: whole years in the model.
YearsFrom(cf, baseDate) == (cf.date - baseDate) \div XIRR_MS_PER_YEAR

MaxYears(cashflows) ==
    LET baseDate == cashflows[1].date
        ys == { YearsFrom(cashflows[k], baseDate) : k \in 1..Len(cashflows) }
    IN  CHOOSE y \in ys : \A z \in ys : z <= y

\* npv(rate) as a fraction num / den of amount units.  With x = RateScale +
\* rate, 1 + rate = x / RateScale and amount / (1 + rate)^y
\* = amount * RateScale^y * x^(K - y) / x^K for K the largest exponent; den =
\* x^K is positive because rate >= LowRate.  NaN when a date is invalid.
npv(cashflows, rate) ==
    IF \E k \in 1..Len(cashflows) : cashflows[k].date = NoDate
    THEN [nan |-> TRUE, num |-> 0, den |-> 1]
    ELSE LET baseDate == cashflows[1].date
             x == RateScale + rate
             K == MaxYears(cashflows)
             term(cf) ==
                 LET y == YearsFrom(cf, baseDate)
                 IN  cf.amount * Pow(RateScale, y) * Pow(x, K - y)
         IN  [nan |-> FALSE,
              num |-> SumSeq([k \in 1..Len(cashflows) |-> term(cashflows[k])]),
              den |-> Pow(x, K)]

\* Math.abs(value) < 1e-6, that is |num| * InvTolerance < den.
NpvIsZero(value) ==
    ~value.nan /\ Abs(value.num) <= (value.den - 1) \div InvTolerance

\* value > 0
NpvIsPositive(value) == ~value.nan /\ value.num > 0

\* Mutant: the halves exchanged (the upper bound lowered when NPV > 0).
Bisect_Swapped(lo, hi, md, value) ==
    IF NpvIsPositive(value) THEN [low |-> lo, high |-> md] ELSE [low |-> md, high |-> hi]

\* if (value > 0) low = mid; else high = mid;
Bisect(lo, hi, md, value) ==
    IF NpvIsPositive(value) THEN [low |-> md, high |-> hi] ELSE [low |-> lo, high |-> md]

Midpoint(lo, hi) == (lo + hi) \div 2

\* Mutant: the rate returned as it is.
Percent_Unscaled(rate) == rate

\* mid * 100: the rate in percent, still in units of 1 / RateScale.
Percent(rate) == rate * 100

Number(v) == [kind |-> "number", value |-> v]

Null == [kind |-> "null", value |-> 0]

\* calculateXirr up to the loop: the early returns (0, not null) and the
\* initial interval.
CallXirr ==
    /\ pc = "input"
    /\ called' = "calculateXirr"
    /\ LET cashflows == XirrCashflows(transactions)
       IN  IF Len(transactions) < 2 \/ cashflows = <<>>
           THEN /\ returned' = Number(0)
                /\ pc' = "done"
                /\ UNCHANGED <<work, idx, low, high, mid>>
           ELSE /\ work' = cashflows
                /\ low' = LowRate
                /\ high' = HighRate
                /\ mid' = 0
                /\ idx' = 0
                /\ pc' = "xirr"
                /\ UNCHANGED returned
    /\ UNCHANGED <<transactions, outsideSolver>>

\* calculateXIRR of stockService.js / notificationService.js up to the loop.
CallXIRR(service) ==
    /\ pc = "input"
    /\ called' = service
    /\ IF Len(transactions) < 2
       THEN /\ returned' = Null
            /\ pc' = "done"
            /\ UNCHANGED <<work, idx, low, high, mid>>
       ELSE /\ work' = XIRRCashflows(transactions)
            /\ low' = LowRate
            /\ high' = HighRate
            /\ mid' = 0
            /\ idx' = 0
            /\ pc' = "xirr"
            /\ UNCHANGED returned
    /\ UNCHANGED <<transactions, outsideSolver>>

CallStockXIRR == CallXIRR("stockService.calculateXIRR")

CallNotificationXIRR == CallXIRR("notificationService.calculateXIRR")

\* One iteration of the for loop, in all three functions.
StepXirr ==
    /\ pc = "xirr"
    /\ idx < MaxIterations
    /\ LET m == Midpoint(low, high)
           value == npv(work, m)
           next == Bisect(low, high, m, value)
       IN  /\ mid' = m
           /\ IF NpvIsZero(value)
              THEN /\ returned' = Number(Percent(m))
                   /\ pc' = "done"
                   /\ UNCHANGED <<low, high, idx>>
              ELSE /\ low' = next.low
                   /\ high' = next.high
                   /\ idx' = idx + 1
                   /\ UNCHANGED <<returned, pc>>
    /\ UNCHANGED <<transactions, called, work, outsideSolver>>

\* The return after the loop: mid * 100 in calculateXirr, (low + high) / 2 *
\* 100 in calculateXIRR.
ReturnXirr ==
    /\ pc = "xirr"
    /\ idx >= MaxIterations
    /\ returned' = IF called = "calculateXirr"
                   THEN Number(Percent(mid))
                   ELSE Number(Percent(Midpoint(low, high)))
    /\ pc' = "done"
    /\ UNCHANGED <<transactions, called, work, idx, low, high, mid, outsideSolver>>

\* Cashflows on two dates one year apart or undated, outflows, inflows and
\* zero amounts.
Flow(amount, date) == [amount |-> amount, date |-> date]

XirrFlows ==
    { Flow(amount, date) :
        amount \in {0 - 10, 0 - 3, 0, 1, 11}, date \in {NoDate, 1, 366} }

MaxFlows == 2

NextXirr ==
    \/ AddTxn(XirrFlows, MaxFlows)
    \/ CallXirr
    \/ CallStockXIRR
    \/ CallNotificationXIRR
    \/ StepXirr
    \/ ReturnXirr

SpecXirr == Init /\ [][NextXirr]_vars

\* ------------------------------------------------------- claims on XIRR
XirrCalls ==
    {"calculateXirr", "stockService.calculateXIRR", "notificationService.calculateXIRR"}

XirrReturned == pc = "done" /\ called \in XirrCalls

\* C12 (as claimed): the XIRR solver returns null, not 0 and not a rate, when
\* fewer than two cashflows with a non-zero amount and a valid date are
\* supplied, also when two or more are supplied and all amounts are zero.
C12_NullWhenTooFew ==
    (XirrReturned /\ Len(SelectSeq(transactions, XirrKept)) < 2) => returned = Null

\* All cashflows dated, with non-zero amounts of one sign: the NPV has the
\* sign of the amounts at every rate above -1.
OneSided(flows) ==
    /\ Len(flows) >= 2
    /\ \A k \in 1..Len(flows) : flows[k].date # NoDate
    /\ \/ \A k \in 1..Len(flows) : flows[k].amount < 0
       \/ \A k \in 1..Len(flows) : flows[k].amount > 0

\* C13 (as claimed): when the NPV of the cashflows has no root within
\* [-0.9999, 100], as when every cashflow is an outflow or every cashflow is
\* an inflow, the XIRR solver returns null rather than a rate.
C13_NullWhenNoRoot ==
    (XirrReturned /\ OneSided(transactions)) => returned = Null

\* C14: the bisection ends after at most 100 iterations; at every step
\* -0.9999 <= low <= mid <= high <= 100; an iteration takes the midpoint,
\* raises low to it when NPV(mid) > 0 and lowers high to it otherwise, so the
\* interval never widens; and the value returned is a midpoint of the
\* interval times 100, within [-99.99, 10000].
C14_BisectionBounded ==
    [][(pc = "xirr") =>
          /\ LowRate <= low' /\ low' <= mid' /\ mid' <= high' /\ high' <= HighRate
          /\ low <= low' /\ high' <= high
          /\ idx' <= MaxIterations
          /\ idx >= MaxIterations => pc' = "done"
          /\ pc' = "xirr" =>
                /\ idx' = idx + 1
                /\ mid' = (low + high) \div 2
                /\ IF npv(work, mid').num > 0 /\ ~npv(work, mid').nan
                   THEN low' = mid' /\ high' = high
                   ELSE high' = mid' /\ low' = low
          /\ pc' = "done" =>
                /\ returned'.kind = "number"
                /\ returned'.value \in {100 * mid', 100 * ((low' + high') \div 2)}
                /\ 100 * LowRate <= returned'.value
                /\ returned'.value <= 100 * HighRate
       ]_vars

\* A run of all 100 iterations in which both ends of the interval have moved.
C14_Witness ==
    /\ XirrReturned
    /\ idx = MaxIterations
    /\ LowRate < low /\ low <= high /\ high < HighRate
    /\ returned.kind = "number"

\* 0.01 percent, in the units of the value returned.
PercentTolerance == RateScale \div 100

XirrExample == << Flow(0 - 10, 1), Flow(11, 366) >>

DepositTypeTexts == {"Deposit", "Interest", "Withdrawal", "Maturity"}

\* txn.account_name || 'unknown'
PPFKey(txn) == IF txn.account = <<>> THEN <<"unknown">> ELSE txn.account

\* `${txn.account_name || 'unknown'}||${txn.bank_name || ''}`
FDKey(txn) == PPFKey(txn) \o <<"||">> \o txn.bank

\* grouped: the keys in order of first appearance, each row with its key (the
\* key of calculateFDHoldings has the bank in it).
Keyed(txs, withBank) ==
    [i \in 1..Len(txs) |->
        [key |-> IF withBank THEN FDKey(txs[i]) ELSE PPFKey(txs[i]), type |-> txs[i].type, amount |-> txs[i].amount,
         date |-> txs[i].date]]

GroupKeys(keyed) == FirstSeen([i \in 1..Len(keyed) |-> keyed[i].key], <<>>)

\* Object.values(grouped).forEach: group after group, each sorted by txn_date.
DepositWork(keyed) ==
    LET keys == GroupKeys(keyed)
    IN  Flatten([k \in 1..Len(keys) |->
            SortFlows(SelectSeq(keyed, LAMBDA t : t.key = keys[k]))])

OpenBalances(keyed) ==
    LET keys == GroupKeys(keyed)
    IN  [k \in 1..Len(keys) |-> [key |-> keys[k], invested |-> 0, interest |-> 0]]

\* Mutant: the withdrawal taken from the principal first.
Withdraw_PrincipalFirst(entry, amount) ==
    LET reduceDeposit == Min(amount, entry.invested)
        remaining == amount - reduceDeposit
        reduceInterest == Min(remaining, entry.interest)
    IN  [entry EXCEPT !.interest = @ - reduceInterest, !.invested = @ - reduceDeposit]

\* The withdrawal / maturity branch.
Withdraw(entry, amount) ==
    LET reduceInterest == Min(amount, entry.interest)
        remaining == amount - reduceInterest
        reduceDeposit == Min(remaining, entry.invested)
    IN  [entry EXCEPT !.interest = @ - reduceInterest, !.invested = @ - reduceDeposit]

\* One iteration of accountTxns.forEach in calculatePPFHoldings.
PPFApplyEntry(entry, txn) ==
    LET amount == txn.amount
        type == ToLowerCase(txn.type)
    IN  IF type = "deposit" THEN [entry EXCEPT !.invested = @ + amount]
        ELSE IF type = "interest" THEN [entry EXCEPT !.interest = @ + amount]
        ELSE IF type = "withdrawal" THEN Withdraw(entry, amount)
        ELSE entry

\* One iteration of accountTxns.forEach in calculateFDHoldings.
FDApplyEntry(entry, txn) ==
    LET amount == txn.amount
        type == ToLowerCase(txn.type)
    IN  IF amount <= 0 THEN entry
        ELSE IF Includes(type, "deposit") \/ Includes(type, "create")
                  \/ Includes(type, "open")
        THEN [entry EXCEPT !.invested = @ + amount]
        ELSE IF Includes(type, "interest") THEN [entry EXCEPT !.interest = @ + amount]
        ELSE IF Includes(type, "maturity") THEN Withdraw(entry, amount)
        ELSE IF Includes(type, "withdraw") THEN Withdraw(entry, amount)
        ELSE entry

\* The iteration applied to the sums of the row's own group.
ApplyToKey(bs, txn, isFD) ==
    [k \in 1..Len(bs) |->
        IF bs[k].key # txn.key THEN bs[k]
        ELSE IF isFD THEN FDApplyEntry(bs[k], txn) ELSE PPFApplyEntry(bs[k], txn)]

Holdings(totalInvested, totalInterest) ==
    [kind |-> "holdings",
     invested |-> totalInvested,
     interest |-> totalInterest,
     total |-> totalInvested + totalInterest,
     marketValue |-> totalInvested + totalInterest]

CallPPF ==
    /\ pc = "input"
    /\ pc' = "ppf"
    /\ called' = "calculatePPFHoldings"
    /\ work' = DepositWork(Keyed(transactions, FALSE))
    /\ balances' = OpenBalances(Keyed(transactions, FALSE))
    /\ idx' = 1
    /\ UNCHANGED <<transactions, returned, outsideDeposits>>

StepPPF ==
    /\ pc = "ppf"
    /\ idx <= Len(work)
    /\ balances' = ApplyToKey(balances, work[idx], FALSE)
    /\ idx' = idx + 1
    /\ UNCHANGED <<transactions, pc, called, work, returned, outsideDeposits>>

ReturnPPF ==
    /\ pc = "ppf"
    /\ idx > Len(work)
    /\ returned' = Holdings(SumField(balances, "invested"), SumField(balances, "interest"))
    /\ pc' = "done"
    /\ UNCHANGED <<transactions, called, work, idx, balances, outsideDeposits>>

CallFD ==
    /\ pc = "input"
    /\ called' = "calculateFDHoldings"
    /\ IF transactions = <<>>
       THEN /\ returned' = Holdings(0, 0)
            /\ pc' = "done"
            /\ UNCHANGED <<work, balances, idx>>
       ELSE /\ pc' = "fd"
            /\ work' = DepositWork(Keyed(transactions, TRUE))
            /\ balances' = OpenBalances(Keyed(transactions, TRUE))
            /\ idx' = 1
            /\ UNCHANGED returned
    /\ UNCHANGED <<transactions, outsideDeposits>>

StepFD ==
    /\ pc = "fd"
    /\ idx <= Len(work)
    /\ balances' = ApplyToKey(balances, work[idx], TRUE)
    /\ idx' = idx + 1
    /\ UNCHANGED <<transactions, pc, called, work, returned, outsideDeposits>>

\* totalInvested += Math.max(invested, 0); totalInterest += Math.max(interest, 0)
ReturnFD ==
    /\ pc = "fd"
    /\ idx > Len(work)
    /\ returned' =
          Holdings(SumSeq([k \in 1..Len(balances) |-> Max(balances[k].invested, 0)]),
                   SumSeq([k \in 1..Len(balances) |-> Max(balances[k].interest, 0)]))
    /\ pc' = "done"
    /\ UNCHANGED <<transactions, called, work, idx, balances, outsideDeposits>>

\* Rows of account A1 of every type with amounts -5, 5 and 10, and rows of a
\* second account.
B == <<"B">>

DepositRow(account, bank, type, amount, date) ==
    [account |-> account, bank |-> bank, type |-> type, amount |-> amount,
     date |-> date]

DepositRows ==
    { DepositRow(A1, B, type, amount, 2) :
        type \in DepositTypeTexts, amount \in {0 - 5, 5, 10} }
    \cup { DepositRow(A1, B, "Deposit", 10, 1), DepositRow(A1, B, "Withdrawal", 10, 1),
           DepositRow(A2, B, "Deposit", 10, 2), DepositRow(A2, B, "Withdrawal", 10, 2) }

MaxDepositTxns == 3

NextDeposits ==
    \/ AddTxn(DepositRows, MaxDepositTxns)
    \/ CallPPF \/ StepPPF \/ ReturnPPF
    \/ CallFD \/ StepFD \/ ReturnFD

SpecDeposits == Init /\ [][NextDeposits]_vars

\* ------------------------------------------- claims on PPF and FD
DepositStepping == pc \in {"ppf", "fd"} /\ idx <= Len(work) /\ idx' = idx + 1

\* A withdrawal, and for fixed deposits a maturity, of a positive amount.
IsWithdrawal(txn) ==
    /\ txn.amount > 0
    /\ \/ txn.type = "Withdrawal"
       \/ pc = "fd" /\ txn.type = "Maturity"

BalanceOf(bs, key) == bs[CHOOSE k \in 1..Len(bs) : bs[k].key = key]

C17_BalancesNonNegative ==
    called \in {"calculatePPFHoldings", "calculateFDHoldings"} =>
        /\ \A k \in 1..Len(balances) :
              balances[k].invested >= 0 /\ balances[k].interest >= 0
        /\ pc = "done" =>
              /\ returned.invested >= 0
              /\ returned.interest >= 0
              /\ returned.total >= 0
              /\ returned.total = returned.invested + returned.interest

\* -------------------------------------------------------------------- EPF
\* The amount of a row: the sum of its three shares.
EPFAmount(txn) == txn.employee_share + txn.employer_share + txn.pension_share

\* One iteration of transactions.forEach in calculateEPFHoldings on the sums
\* deposits, interest and withdrawal.
EPFApply(sums, txn) ==
    LET amount == EPFAmount(txn)
        type == ToLowerCase(txn.invest_type)
    IN  IF amount <= 0 THEN sums
        ELSE IF Includes(type, "withdraw") THEN [sums EXCEPT !.withdrawal = @ + amount]
        ELSE IF Includes(type, "interest") THEN [sums EXCEPT !.interest = @ + amount]
        ELSE [sums EXCEPT !.deposits = @ + amount]

CallEPF ==
    /\ pc = "input"
    /\ pc' = "epf"
    /\ called' = "calculateEPFHoldings"
    /\ work' = transactions
    /\ balances' = <<[deposits |-> 0, interest |-> 0, withdrawal |-> 0]>>
    /\ idx' = 1
    /\ UNCHANGED <<transactions, returned, outsideDeposits>>

StepEPF ==
    /\ pc = "epf"
    /\ idx <= Len(work)
    /\ balances' = <<EPFApply(balances[1], work[idx])>>
    /\ idx' = idx + 1
    /\ UNCHANGED <<transactions, pc, called, work, returned, outsideDeposits>>

\* The object calculateEPFHoldings returns.
EPFHoldings(deposits, interest, withdrawal) ==
    [kind |-> "holdings",
     invested |-> Max(deposits - withdrawal, 0),
     interest |-> interest,
     total |-> deposits + interest - withdrawal]

ReturnEPF ==
    /\ pc = "epf"
    /\ idx > Len(work)
    /\ returned' = EPFHoldings(balances[1].deposits, balances[1].interest,
                               balances[1].withdrawal)
    /\ pc' = "done"
    /\ UNCHANGED <<transactions, called, work, idx, balances, outsideDeposits>>

\* Contributions, interest and withdrawals of 0, 5, 40, 45, 60 or 100.
EPFRow(invest_type, employee_share, employer_share, pension_share) ==
    [invest_type |-> invest_type, employee_share |-> employee_share,
     employer_share |-> employer_share, pension_share |-> pension_share]

EPFRows ==
    { EPFRow(type, employee, employer, 0) :
        type \in {"Contribution", "Interest", "Withdrawal"},
        employee \in {0, 5, 60}, employer \in {0, 40} }

MaxEPFTxns == 3

NextEPF ==
    \/ AddTxn(EPFRows, MaxEPFTxns)
    \/ CallEPF \/ StepEPF \/ ReturnEPF

SpecEPF == Init /\ [][NextEPF]_vars

\* The sum of the positive amounts of the rows of one type.
EPFSum(txs, type) ==
    SumSeq([i \in 1..Len(txs) |->
              IF txs[i].invest_type = type /\ EPFAmount(txs[i]) > 0
              THEN EPFAmount(txs[i]) ELSE 0])

\* C18 (as claimed): in calculateEPFHoldings withdrawals are taken from the
\* accumulated interest first: with deposits D, interest I and withdrawals W
\* the reported interest is max(I - W, 0) and the reported invested is
\* D - max(W - I, 0), floored at 0.
C18_EPFInterestFirst ==
    (pc = "done" /\ called = "calculateEPFHoldings") =>
        LET D == EPFSum(transactions, "Contribution")
            I == EPFSum(transactions, "Interest")
            W == EPFSum(transactions, "Withdrawal")
        IN  /\ returned.interest = Max(I - W, 0)
            /\ returned.invested = Max(D - Max(W - I, 0), 0)

\* ================================================================== bank
\*   calculateBankHoldings  src/src/services/aggregationService.js
\*   getBankData            src/src/services/notificationService.js
\*
\* A txn_date is the number 100 * month + day, so the calendar month of a
\* date (getFullYear() * 100 + getMonth() + 1, or the 'YYYY-MM' prefix of the
\* text) is date \div 100.  NoMonth is the null month.
MonthOf(date) == date \div 100

NoMonth == 0

BankRow(account_name, bank_name, account_type, txn_date, amount) ==
    [account_name |-> account_name, bank_name |-> bank_name,
     account_type |-> account_type, txn_date |-> txn_date, amount |-> amount]

\* The comparator (a, b) => new Date(b.txn_date) - new Date(a.txn_date), and
\* the order of the query (txn_date descending): latest first, stable.
RECURSIVE InsertLatestFirst(_, _)
InsertLatestFirst(x, s) ==
    IF s = <<>> THEN <<x>>
    ELSE IF x.txn_date > Head(s).txn_date THEN <<x>> \o s
    ELSE <<Head(s)>> \o InsertLatestFirst(x, Tail(s))

RECURSIVE LatestFirstFrom(_, _)
LatestFirstFrom(s, acc) ==
    IF s = <<>> THEN acc ELSE LatestFirstFrom(Tail(s), InsertLatestFirst(Head(s), acc))

LatestFirst(s) == LatestFirstFrom(s, <<>>)

\* calculateBankHoldings: the savings and demat rows.
BankFiltered(txs) ==
    SelectSeq(txs, LAMBDA txn : ToLowerCase(txn.account_type) \in {"savings", "demat"})

\* latestMonthNumeric: the largest month of a dated row, -Infinity without one.
RECURSIVE LatestMonthFrom(_, _)
LatestMonthFrom(filtered, latestMonthNumeric) ==
    IF filtered = <<>> THEN latestMonthNumeric
    ELSE IF Head(filtered).txn_date # NoDate
              /\ MonthOf(Head(filtered).txn_date) > latestMonthNumeric
         THEN LatestMonthFrom(Tail(filtered), MonthOf(Head(filtered).txn_date))
         ELSE LatestMonthFrom(Tail(filtered), latestMonthNumeric)

LatestMonth(filtered) == LatestMonthFrom(filtered, 0 - Infinity)

\* `${account_name}||${bank_name}||${account_type}`
BankKey(txn) ==
    txn.account_name \o <<"||">> \o txn.bank_name \o <<"||", txn.account_type>>

\* groups: the lists of the Map, in order of first appearance of their key.
BankGroups(filtered) ==
    LET keys == FirstSeen([i \in 1..Len(filtered) |-> BankKey(filtered[i])], <<>>)
    IN  [k \in 1..Len(keys) |-> SelectSeq(filtered, LAMBDA txn : BankKey(txn) = keys[k])]

\* match: the first row of the list, latest first, that lies in the month.
BankMatch(list, latestMonthNumeric) ==
    LET dated == SelectSeq(list, LAMBDA txn : txn.txn_date # NoDate)
        inMonth == SelectSeq(LatestFirst(dated),
                             LAMBDA txn : MonthOf(txn.txn_date) = latestMonthNumeric)
    IN  IF inMonth = <<>> THEN <<>> ELSE <<Head(inMonth)>>

\* One iteration of groups.forEach on savingsSum and dematSum.
BankApplyGroup(sums, list, latestMonthNumeric) ==
    LET match == BankMatch(list, latestMonthNumeric)
    IN  IF match = <<>> THEN sums
        ELSE IF ToLowerCase(match[1].account_type) = "savings"
        THEN [sums EXCEPT !.savingsSum = @ + match[1].amount]
        ELSE IF ToLowerCase(match[1].account_type) = "demat"
        THEN [sums EXCEPT !.dematSum = @ + match[1].amount]
        ELSE sums

BankTotals(savings, demat) ==
    [kind |-> "bank", savings |-> savings, demat |-> demat, total |-> savings + demat]

\* calculateBankHoldings up to groups.forEach, with its three early returns.
CallBankHoldings ==
    /\ pc = "input"
    /\ called' = "calculateBankHoldings"
    /\ LET filtered == BankFiltered(transactions)
       IN  IF transactions = <<>> \/ filtered = <<>> \/ LatestMonth(filtered) < 0
           THEN /\ returned' = BankTotals(0, 0)
                /\ pc' = "done"
                /\ UNCHANGED <<work, idx, balances>>
           ELSE /\ work' = BankGroups(filtered)
                /\ balances' = <<[savingsSum |-> 0, dematSum |-> 0,
                                 latestMonthNumeric |-> LatestMonth(filtered)]>>
                /\ idx' = 1
                /\ pc' = "bank"
                /\ UNCHANGED returned
    /\ UNCHANGED <<transactions, outsideDeposits>>

StepBankHoldings ==
    /\ pc = "bank"
    /\ idx <= Len(work)
    /\ balances' = <<BankApplyGroup(balances[1], work[idx], balances[1].latestMonthNumeric)>>
    /\ idx' = idx + 1
    /\ UNCHANGED <<transactions, pc, called, work, returned, outsideDeposits>>

ReturnBankHoldings ==
    /\ pc = "bank"
    /\ idx > Len(work)
    /\ returned' = BankTotals(balances[1].savingsSum, balances[1].dematSum)
    /\ pc' = "done"
    /\ UNCHANGED <<transactions, called, work, idx, balances, outsideDeposits>>

\* getBankData: `${account_name}___${bank_name}___${account_type}`
BankDataKey(txn) ==
    txn.account_name \o <<"___">> \o txn.bank_name \o <<"___", txn.account_type>>

EntryIndex(entries, ym, key) ==
    IF \E i \in 1..Len(entries) : entries[i].ym = ym /\ entries[i].key = key
    THEN CHOOSE i \in 1..Len(entries) : entries[i].ym = ym /\ entries[i].key = key
    ELSE 0

\* One iteration of data.forEach: the first row of a key is its latest
\* balance; within a month the amounts of a key are added up.
BankDataApply(acc, txn) ==
    LET key == BankDataKey(txn)
        ym == MonthOf(txn.txn_date)
        i == EntryIndex(acc.groupedByMonth, ym, key)
        seen == \E j \in 1..Len(acc.latestBalances) : acc.latestBalances[j].key = key
        entry == [ym |-> ym, key |-> key, account_type |-> txn.account_type,
                  txn_date |-> txn.txn_date, amount |-> txn.amount]
    IN  [latestBalances |->
             IF seen THEN acc.latestBalances ELSE Append(acc.latestBalances, entry),
         groupedByMonth |->
             IF i = 0 THEN Append(acc.groupedByMonth, entry)
             ELSE [acc.groupedByMonth EXCEPT ![i].amount = @ + txn.amount]]

\* months: the keys of groupedByMonth, latest first; months[n] || null.
MonthAt(groupedByMonth, n) ==
    LET yms == { groupedByMonth[i].ym : i \in 1..Len(groupedByMonth) }
        later(ym) == Cardinality({ other \in yms : other > ym })
    IN  IF \E ym \in yms : later(ym) = n
        THEN CHOOSE ym \in yms : later(ym) = n
        ELSE NoMonth

sumByTypeForMonth(groupedByMonth, month, type) ==
    IF month = NoMonth THEN 0
    ELSE SumSeq([i \in 1..Len(groupedByMonth) |->
                   IF groupedByMonth[i].ym = month /\ groupedByMonth[i].account_type = type
                   THEN groupedByMonth[i].amount ELSE 0])

\* The fetch (order: txn_date descending) and the empty accumulators.
CallBankData ==
    /\ pc = "input"
    /\ pc' = "bankData"
    /\ called' = "getBankData"
    /\ work' = LatestFirst(transactions)
    /\ balances' = <<[latestBalances |-> <<>>, groupedByMonth |-> <<>>]>>
    /\ idx' = 1
    /\ UNCHANGED <<transactions, returned, outsideDeposits>>

StepBankData ==
    /\ pc = "bankData"
    /\ idx <= Len(work)
    /\ balances' = <<BankDataApply(balances[1], work[idx])>>
    /\ idx' = idx + 1
    /\ UNCHANGED <<transactions, pc, called, work, returned, outsideDeposits>>

ReturnBankData ==
    /\ pc = "bankData"
    /\ idx > Len(work)
    /\ LET groupedByMonth == balances[1].groupedByMonth
           currentMonth == MonthAt(groupedByMonth, 0)
           prevMonth == MonthAt(groupedByMonth, 1)
           current(type) == sumByTypeForMonth(groupedByMonth, currentMonth, type)
           prev(type) == sumByTypeForMonth(groupedByMonth, prevMonth, type)
       IN  returned' =
               [kind |-> "bankData",
                summary |-> [Savings |-> [current |-> current("Savings"),
                                          diff |-> current("Savings") - prev("Savings")],
                             Demat |-> [current |-> current("Demat"),
                                        diff |-> current("Demat") - prev("Demat")]],
                currentMonth |-> currentMonth,
                prevMonth |-> prevMonth]
    /\ pc' = "done"
    /\ UNCHANGED <<transactions, called, work, idx, balances, outsideDeposits>>

\* One account at one bank, a savings and a demat balance, three dates in two
\* months, and a row of a type that is neither.
BankRows ==
    { BankRow(A1, B, type, date, amount) :
        type \in {"Savings", "Demat"}, date \in {101, 115, 201}, amount \in {70, 100} }
    \cup { BankRow(A1, B, "Current", 201, 100) }

MaxBankTxns == 3

NextBank ==
    \/ AddTxn(BankRows, MaxBankTxns)
    \/ CallBankHoldings \/ StepBankHoldings \/ ReturnBankHoldings
    \/ CallBankData \/ StepBankData \/ ReturnBankData

SpecBank == Init /\ [][NextBank]_vars

\* ------------------------------------------------------- claims on bank
\* The (account, institution, type) group of a row, the groups of the rows,
\* and the amount of the latest-dated row of a group in a month (0 if none).
GroupOf(txn) == <<txn.account_name, txn.bank_name, txn.account_type>>

GroupsOf(txs) == FirstSeen([i \in 1..Len(txs) |-> GroupOf(txs[i])], <<>>)

LatestAmount(txs, group, month) ==
    LET rows == SelectSeq(txs, LAMBDA txn :
                    GroupOf(txn) = group /\ txn.txn_date # NoDate
                    /\ MonthOf(txn.txn_date) = month)
    IN  IF rows = <<>> THEN 0
        ELSE rows[CHOOSE i \in 1..Len(rows) :
                     \A j \in 1..Len(rows) : rows[j].txn_date <= rows[i].txn_date].amount

LatestByType(txs, type, month) ==
    LET groups == GroupsOf(txs)
    IN  SumSeq([g \in 1..Len(groups) |->
                  IF groups[g][3] = type THEN LatestAmount(txs, groups[g], month) ELSE 0])

\* No two rows of one group carry the same date.
OneRowPerDate(txs) ==
    \A i, j \in 1..Len(txs) :
        (i # j /\ GroupOf(txs[i]) = GroupOf(txs[j])) => txs[i].txn_date # txs[j].txn_date

\* C19 (as claimed): within one calendar month each (account, institution,
\* type) group contributes to the per-type sum the amount of its latest-dated
\* transaction of that month and nothing else: in calculateBankHoldings for
\* the most recent month, in getBankData for the most recent and the prior
\* month.
C19_LatestPerGroup ==
    (pc = "done" /\ OneRowPerDate(transactions)) =>
        /\ called = "calculateBankHoldings" =>
              LET month == LatestMonth(BankFiltered(transactions))
              IN  /\ returned.savings = LatestByType(transactions, "Savings", month)
                  /\ returned.demat = LatestByType(transactions, "Demat", month)
        /\ called = "getBankData" =>
              LET current(type) == LatestByType(transactions, type, returned.currentMonth)
                  prev(type) == LatestByType(transactions, type, returned.prevMonth)
              IN  /\ returned.summary.Savings.current = current("Savings")
                  /\ returned.summary.Savings.diff = current("Savings") - prev("Savings")
                  /\ returned.summary.Demat.current = current("Demat")
                  /\ returned.summary.Demat.diff = current("Demat") - prev("Demat")

\* ============================================================= dashboard
\*   getDashboardAssetAllocation  src/src/services/dashboardService.js
\*   getDashboardAssetAllocation  src/unnamed/part_005 (with dayChange)
\*
\* The input of a call is what the aggregators return for the fetched tables
\* (data), the equity charges total and the last closing prices.  A percentage
\* x / y * 100 is kept as the fraction [num |-> 100 * x, den |-> y].
Fraction(num, den) == [num |-> num, den |-> den]

Zero == Fraction(0, 1)

\* The totals calculateStockLots returns for its holdings: accountType 'ETF'
\* goes to etf, everything else to stock.
StockData(holdings) ==
    LET sum(f, etf) ==
            SumSeq([i \in 1..Len(holdings) |->
                      IF (holdings[i].accountType = "ETF") = etf THEN holdings[i][f] ELSE 0])
    IN  [stock |-> [marketValue |-> sum("marketValue", FALSE),
                    invested |-> sum("invested", FALSE)],
         etf |-> [marketValue |-> sum("marketValue", TRUE),
                  invested |-> sum("invested", TRUE)],
         holdings |-> holdings]

\* The totals calculateMFLots and calculateNPSHoldings return.
LedgerData(holdings) ==
    [marketValue |-> SumField(holdings, "marketValue"),
     invested |-> SumField(holdings, "invested"),
     holdings |-> holdings]

\* lcpMap.get(name) || 0
LcpOf(lcpMap, name) == IF name \in DOMAIN lcpMap THEN lcpMap[name] ELSE 0

\* holding.quantity * (holding.cmp - lcp), holding.units * (holding.cmp - lcp)
DayChange(quantity, cmp, lcp) == quantity * (cmp - lcp)

\* part_005: the stock name contains one of the ETF patterns.
NameHasEtfPattern(stockName) == stockName \in {"NIFTYBEES", "GOLDBEES"}

IsETF(holding) ==
    \/ ToLowerCase(holding.equityType) = "etf"
    \/ holding.accountType = "ETF"
    \/ NameHasEtfPattern(holding.stockName)

IsStock(holding) ==
    /\ ~IsETF(holding)
    /\ \/ ToLowerCase(holding.equityType) = "stocks"
       \/ holding.accountType \in {"FREE", "REGULAR", "ESOP"}

\* stockDayChange, etfDayChange, mfDayChange and npsDayChange of part_005.
DayChanges(data) ==
    LET stockHoldings == data.stockData.holdings
        ofStock(h) == DayChange(h.quantity, h.cmp, LcpOf(data.stockLcpMap, h.stockName))
        ofUnits(h, lcpMap, name) == DayChange(h.units, h.cmp, LcpOf(lcpMap, name))
    IN  [stock |-> SumSeq([i \in 1..Len(stockHoldings) |->
                      IF IsStock(stockHoldings[i]) THEN ofStock(stockHoldings[i]) ELSE 0]),
         etf |-> SumSeq([i \in 1..Len(stockHoldings) |->
                      IF IsETF(stockHoldings[i]) THEN ofStock(stockHoldings[i]) ELSE 0]),
         mf |-> SumSeq([i \in 1..Len(data.mfData.holdings) |->
                      ofUnits(data.mfData.holdings[i], data.fundLcpMap,
                              data.mfData.holdings[i].fundName)]),
         nps |-> SumSeq([i \in 1..Len(data.npsData.holdings) |->
                      ofUnits(data.npsData.holdings[i], data.npsLcpMap,
                              data.npsData.holdings[i].schemeName)])]

\* Mutant: the charges not taken off the Stock row.
StockInvestedValue_Gross(stockData, totalEquityCharges) == stockData.stock.invested

\* investedValue of the Stock row in dashboardService.js.
StockInvestedValue(stockData, totalEquityCharges) ==
    stockData.stock.invested - totalEquityCharges

AssetRow(assetType, marketValue, investedValue, simpleProfit, dayChange) ==
    [assetType |-> assetType, marketValue |-> marketValue,
     investedValue |-> investedValue, simpleProfit |-> simpleProfit,
     dayChange |-> dayChange]

\* The eight rows; stockInvested is the investedValue of the Stock row.
AssetRows(data, stockInvested, dayChange) ==
    << AssetRow("Stock", data.stockData.stock.marketValue, stockInvested,
                data.stockData.stock.marketValue - stockInvested, dayChange.stock),
       AssetRow("ETF", data.stockData.etf.marketValue, data.stockData.etf.invested,
                data.stockData.etf.marketValue - data.stockData.etf.invested,
                dayChange.etf),
       AssetRow("MF", data.mfData.marketValue, data.mfData.invested,
                data.mfData.marketValue - data.mfData.invested, dayChange.mf),
       AssetRow("Bank", data.bankData.total, data.bankData.total, 0, 0),
       AssetRow("PPF", data.ppfData.marketValue, data.ppfData.invested,
                data.ppfData.marketValue - data.ppfData.invested, 0),
       AssetRow("EPF", data.epfData.total, data.epfData.invested,
                data.epfData.interest, 0),
       AssetRow("NPS", data.npsData.marketValue, data.npsData.invested,
                data.npsData.marketValue - data.npsData.invested, dayChange.nps),
       AssetRow("FD", data.fdData.marketValue, data.fdData.invested,
                data.fdData.marketValue - data.fdData.invested, 0) >>

\* stock + etf + mf + bank + ppf + epf + nps + fd, before any charges.
TotalInvestedValue(data) ==
    data.stockData.stock.invested + data.stockData.etf.invested + data.mfData.invested
    + data.bankData.total + data.ppfData.invested + data.epfData.invested
    + data.npsData.invested + data.fdData.invested

\* enrichedRows: the allocation and profit percentages of one row.
Enriched(row, totalMarketValue, totalInvestedValue) ==
    [assetType |-> row.assetType,
     marketValue |-> row.marketValue,
     investedValue |-> row.investedValue,
     simpleProfit |-> row.simpleProfit,
     dayChange |-> row.dayChange,
     marketAllocation |->
         IF totalMarketValue > 0 THEN Fraction(100 * row.marketValue, totalMarketValue)
         ELSE Zero,
     investedAllocation |->
         IF totalInvestedValue > 0
         THEN Fraction(100 * row.investedValue, totalInvestedValue)
         ELSE Zero,
     simpleProfitPercent |->
         IF row.investedValue > Eps THEN Fraction(100 * row.simpleProfit, row.investedValue)
         ELSE Zero]

\* rows and summary from the rows and the total invested value.
Allocation(rows, totalInvestedValue, overallDayChange) ==
    LET totalMarketValue == SumField(rows, "marketValue")
        totalProfit == totalMarketValue - totalInvestedValue
    IN  [kind |-> "dashboard",
         rows |-> [i \in 1..Len(rows) |->
                      Enriched(rows[i], totalMarketValue, totalInvestedValue)],
         summary |-> [totalMarketValue |-> totalMarketValue,
                      totalInvestedValue |-> totalInvestedValue,
                      totalProfit |-> totalProfit,
                      profitPercent |->
                          IF totalInvestedValue > Eps
                          THEN Fraction(100 * totalProfit, totalInvestedValue)
                          ELSE Zero,
                      overallDayChange |-> overallDayChange]]

NoDayChange == [stock |-> 0, etf |-> 0, mf |-> 0, nps |-> 0]

\* getDashboardAssetAllocation of dashboardService.js: the charges are taken
\* off the total invested value and off the Stock row; no dayChange.
GetDashboardAssetAllocation(datas) ==
    /\ pc = "input"
    /\ \E data \in datas :
          LET stockInvested == StockInvestedValue(data.stockData, data.totalEquityCharges)
              totalInvestedValue == TotalInvestedValue(data) - data.totalEquityCharges
          IN  /\ work' = <<data>>
              /\ returned' = Allocation(AssetRows(data, stockInvested, NoDayChange),
                                        totalInvestedValue, 0)
    /\ called' = "dashboardService.getDashboardAssetAllocation"
    /\ pc' = "done"
    /\ UNCHANGED <<transactions, idx, balances, outsideDeposits>>

\* getDashboardAssetAllocation of part_005: the charges are computed and not
\* used; rows carry dayChange.
GetDashboardAssetAllocationWithDayChange(datas) ==
    /\ pc = "input"
    /\ \E data \in datas :
          LET dayChange == DayChanges(data)
          IN  /\ work' = <<data>>
              /\ returned' =
                    Allocation(AssetRows(data, data.stockData.stock.invested, dayChange),
                               TotalInvestedValue(data),
                               dayChange.stock + dayChange.etf + dayChange.mf
                               + dayChange.nps)
    /\ called' = "part_005.getDashboardAssetAllocation"
    /\ pc' = "done"
    /\ UNCHANGED <<transactions, idx, balances, outsideDeposits>>

\* What the aggregators return: nothing held, or a few holdings.
StockHolding(stockName, accountType, quantity, invested, cmp) ==
    [stockName |-> stockName, accountType |-> accountType, equityType |-> "",
     quantity |-> quantity, invested |-> invested, marketValue |-> quantity * cmp,
     cmp |-> cmp]

UnitHolding(fundName, units, invested, cmp) ==
    [fundName |-> fundName, schemeName |-> fundName, units |-> units,
     invested |-> invested, marketValue |-> units * cmp, cmp |-> cmp]

StockDatas ==
    { StockData(<<>>),
      StockData(<<StockHolding("INFY", "REGULAR", 10, 100, 12)>>),
      StockData(<<StockHolding("INFY", "REGULAR", 10, 100, 12),
                  StockHolding("NIFTYBEES", "ETF", 5, 50, 12)>>) }

MFDatas == { LedgerData(<<>>), LedgerData(<<UnitHolding("F", 3, 30, 15)>>) }

NPSDatas == { LedgerData(<<>>), LedgerData(<<UnitHolding("S", 2, 40, 15)>>) }

BankDatas == { BankTotals(0, 0), BankTotals(100, 70) }

PPFDatas == { Holdings(0, 0), Holdings(100, 20), Holdings(0 - 5, 0) }

FDDatas == { Holdings(0, 0), Holdings(50, 5) }

EPFDatas == { EPFHoldings(0, 0, 0), EPFHoldings(100, 40, 5), EPFHoldings(0, 0, 40) }

EquityCharges == {0, 10, 500}

DashboardDatas ==
    { [stockData |-> stockData, mfData |-> mfData, bankData |-> bankData,
       ppfData |-> ppfData, fdData |-> fdData, epfData |-> epfData,
       npsData |-> npsData, totalEquityCharges |-> totalEquityCharges,
       stockLcpMap |-> [n \in {"INFY", "NIFTYBEES"} |-> 11],
       fundLcpMap |-> [n \in {"F"} |-> 14],
       npsLcpMap |-> [n \in {"S"} |-> 14]] :
        stockData \in StockDatas, mfData \in MFDatas, bankData \in BankDatas,
        ppfData \in PPFDatas, fdData \in FDDatas, epfData \in EPFDatas,
        npsData \in NPSDatas, totalEquityCharges \in EquityCharges }

NextDashboard ==
    \/ GetDashboardAssetAllocation(DashboardDatas)
    \/ GetDashboardAssetAllocationWithDayChange(DashboardDatas)

SpecDashboard == Init /\ [][NextDashboard]_vars

\* --------------------------------------------- claims on the dashboard
DashboardReturned == pc = "done" /\ returned.kind = "dashboard"

SumNum(rows, f) == SumSeq([i \in 1..Len(rows) |-> rows[i][f].num])

OtherAccounts == <<"Other Accounts">>

\* String(name ?? '').trim() || 'Other Accounts'
formatAccountName(name) ==
    LET trimmed == Trim(name) IN IF trimmed = <<>> THEN OtherAccounts ELSE trimmed

\* The labels the handler passes are already canonical.
canonicalizeAssetType(assetType) ==
    CASE assetType \in {"stock", "stocks", "equity"} -> "stocks"
      [] assetType \in {"etf", "exchange_traded_fund"} -> "etf"
      [] assetType \in {"mutual_fund", "mutualfund", "mf"} -> "mf"
      [] assetType = "nps" -> "nps"
      [] OTHER -> IF assetType = "" THEN "other" ELSE assetType

NoBucket == [invested |-> 0, marketValue |-> 0]

\* breakdown: a bucket per label seen so far.
BucketOf(breakdown, key) == IF key \in DOMAIN breakdown THEN breakdown[key] ELSE NoBucket

sumByAccount(accumulator, accountName, assetType, invested, marketValue) ==
    LET normalizedAccount == formatAccountName(accountName)
        present == \E k \in 1..Len(accumulator) :
                       accumulator[k].account_name = normalizedAccount
        opened == IF present THEN accumulator
                  ELSE Append(accumulator,
                              [account_name |-> normalizedAccount, total_invested |-> 0,
                               total_market_value |-> 0, breakdown |-> << >>])
        breakdownKey == canonicalizeAssetType(assetType)
        add(accountTotals) ==
            LET bucket == BucketOf(accountTotals.breakdown, breakdownKey)
            IN  [account_name |-> accountTotals.account_name,
                 total_invested |-> accountTotals.total_invested + invested,
                 total_market_value |-> accountTotals.total_market_value + marketValue,
                 breakdown |->
                     [k \in DOMAIN accountTotals.breakdown \cup {breakdownKey} |->
                         IF k = breakdownKey
                         THEN [invested |-> bucket.invested + invested,
                               marketValue |-> bucket.marketValue + marketValue]
                         ELSE accountTotals.breakdown[k]]]
    IN  [k \in 1..Len(opened) |->
            IF opened[k].account_name = normalizedAccount THEN add(opened[k])
            ELSE opened[k]]

\* The account name and the label the handler passes for a holding.
PassedAccountName(holding) ==
    IF holding.source = "stock" /\ holding.accountType = "ETF"
    THEN IF holding.accountName # <<>> THEN holding.accountName
         ELSE <<holding.accountType>>
    ELSE holding.accountName

PassedLabel(holding) ==
    IF holding.source = "stock"
    THEN IF holding.accountType = "ETF" THEN "etf" ELSE "stocks"
    ELSE holding.source

\* attachProfitFields
attachProfitFields(account) ==
    LET profit == account.total_market_value - account.total_invested
    IN  [account_name |-> account.account_name,
         total_invested |-> account.total_invested,
         total_market_value |-> account.total_market_value,
         breakdown |-> account.breakdown,
         profit |-> profit,
         profitPercent |->
             IF account.total_invested > Eps
             THEN Fraction(100 * profit, account.total_invested)
             ELSE Zero]

\* accounts.sort((a, b) => b.total_market_value - a.total_market_value)
RECURSIVE InsertByMarketValue(_, _)
InsertByMarketValue(x, s) ==
    IF s = <<>> THEN <<x>>
    ELSE IF x.total_market_value > Head(s).total_market_value THEN <<x>> \o s
    ELSE <<Head(s)>> \o InsertByMarketValue(x, Tail(s))

RECURSIVE SortByMarketValue(_, _)
SortByMarketValue(s, acc) ==
    IF s = <<>> THEN acc
    ELSE SortByMarketValue(Tail(s), InsertByMarketValue(Head(s), acc))

\* buildAssetSummary: the buckets whose label is a key of summary.
buildAssetSummary(accounts) ==
    [key \in {"stock", "etf", "mf", "nps"} |->
        [invested |->
            SumSeq([i \in 1..Len(accounts) |-> BucketOf(accounts[i].breakdown, key).invested]),
         marketValue |->
            SumSeq([i \in 1..Len(accounts) |->
                      BucketOf(accounts[i].breakdown, key).marketValue])]]

\* The stock holdings are added first, then the MF and then the NPS holdings.
CallAccountAnalysis ==
    /\ pc = "input"
    /\ pc' = "accounts"
    /\ called' = "getAccountAnalysis"
    /\ work' = SelectSeq(transactions, LAMBDA h : h.source = "stock")
               \o SelectSeq(transactions, LAMBDA h : h.source = "mf")
               \o SelectSeq(transactions, LAMBDA h : h.source = "nps")
    /\ balances' = <<>>
    /\ idx' = 1
    /\ UNCHANGED <<transactions, returned, outsideDeposits>>

StepAccountAnalysis ==
    /\ pc = "accounts"
    /\ idx <= Len(work)
    /\ balances' = sumByAccount(balances, PassedAccountName(work[idx]),
                                PassedLabel(work[idx]), work[idx].invested,
                                work[idx].marketValue)
    /\ idx' = idx + 1
    /\ UNCHANGED <<transactions, pc, called, work, returned, outsideDeposits>>

ReturnAccountAnalysis ==
    /\ pc = "accounts"
    /\ idx > Len(work)
    /\ LET accounts ==
               SortByMarketValue([k \in 1..Len(balances) |-> attachProfitFields(balances[k])],
                                 <<>>)
           totalInvested == SumField(accounts, "total_invested")
           totalMarketValue == SumField(accounts, "total_market_value")
           totalProfit == totalMarketValue - totalInvested
       IN  returned' =
               [kind |-> "accounts",
                accounts |-> accounts,
                assetSummary |-> buildAssetSummary(accounts),
                totals |-> [invested |-> totalInvested,
                            marketValue |-> totalMarketValue,
                            profit |-> totalProfit,
                            profitPercent |->
                                IF totalInvested > Eps
                                THEN Fraction(100 * totalProfit, totalInvested)
                                ELSE Zero]]
    /\ pc' = "done"
    /\ UNCHANGED <<transactions, called, work, idx, balances, outsideDeposits>>

\* Holdings as the aggregators emit them: stock and ETF holdings with a
\* trimmed account name, MF holdings with the second part of the split key,
\* NPS holdings.
AccountHolding(source, accountType, accountName, invested, marketValue) ==
    [source |-> source, accountType |-> accountType, accountName |-> accountName,
     invested |-> invested, marketValue |-> marketValue]

AccountHoldings ==
    { AccountHolding("stock", accountType, accountName, 10, 12) :
        accountType \in {"REGULAR", "ETF"}, accountName \in {<<>>, A1} }
    \cup { AccountHolding("stock", "REGULAR", A1, 0, 5) }
    \cup { AccountHolding("mf", "", accountName, 20, 15) :
             accountName \in {<<>>, A1, A2, <<" ">> \o A1} }
    \cup { AccountHolding("nps", "", accountName, 30, 40) : accountName \in {<<>>, A1} }

MaxHoldings == 3

NextAccountAnalysis ==
    \/ AddTxn(AccountHoldings, MaxHoldings)
    \/ CallAccountAnalysis \/ StepAccountAnalysis \/ ReturnAccountAnalysis

SpecAccountAnalysis == Init /\ [][NextAccountAnalysis]_vars

\* --------------------------------------- claims on the account analysis
AccountsReturned == pc = "done" /\ returned.kind = "accounts"

\* The account entry a holding is expected in.
ExpectedAccount(holding) ==
    IF Trim(holding.accountName) = <<>> THEN OtherAccounts ELSE Trim(holding.accountName)

SumOver(holdings, f) == SumSeq([i \in 1..Len(holdings) |-> holdings[i][f]])

BreakdownSum(account, f) ==
    LET keys == DOMAIN account.breakdown
        RECURSIVE Sum(_)
        Sum(S) == IF S = {} THEN 0
                  ELSE LET k == CHOOSE k \in S : TRUE
                       IN  account.breakdown[k][f] + Sum(S \ {k})
    IN  Sum(keys)

\* C21: every stock, ETF, MF and NPS holding is accumulated into exactly one
\* account entry, keyed by its trimmed account name with a blank name mapped
\* to "Other Accounts"; each account's total_invested and total_market_value
\* equal the sums over its breakdown buckets, the grand totals equal the sums
\* over all holdings, and profitPercent is 0 whenever total invested is not
\* above 1e-8.
C21_OneEntryPerAccount ==
    AccountsReturned =>
        LET accounts == returned.accounts
            of(name) == SelectSeq(transactions, LAMBDA h : ExpectedAccount(h) = name)
        IN  /\ { accounts[k].account_name : k \in 1..Len(accounts) }
                 = { ExpectedAccount(transactions[i]) : i \in 1..Len(transactions) }
            /\ \A k \in 1..Len(accounts) :
                  /\ \A j \in 1..Len(accounts) :
                        accounts[j].account_name = accounts[k].account_name => j = k
                  /\ accounts[k].total_invested
                       = SumOver(of(accounts[k].account_name), "invested")
                  /\ accounts[k].total_market_value
                       = SumOver(of(accounts[k].account_name), "marketValue")
                  /\ accounts[k].total_invested = BreakdownSum(accounts[k], "invested")
                  /\ accounts[k].total_market_value
                       = BreakdownSum(accounts[k], "marketValue")
                  /\ accounts[k].total_invested <= Eps => accounts[k].profitPercent.num = 0
            /\ returned.totals.invested = SumOver(transactions, "invested")
            /\ returned.totals.marketValue = SumOver(transactions, "marketValue")
            /\ returned.totals.invested <= Eps => returned.totals.profitPercent.num = 0

\* ================================================ calling a function twice
\*   calculateStockLots    src/src/services/lotCalculator.js
\*   calculateMFLots       src/src/services/lotCalculator.js
\*   calculateNPSHoldings  src/src/services/aggregationService.js
\*
\* calculateStockLots adds up the open positions per account, account type
\* and stock; its Map (aggregated) is kept in balances.  A second call of a
\* function on the same array keeps the first call's result in returned.
StockRow(stock_name, account_name, account_type, quantity, buy_price, sell_date) ==
    [stock_name |-> stock_name, account_name |-> account_name,
     account_type |-> account_type, quantity |-> quantity, buy_price |-> buy_price,
     sell_date |-> sell_date]

IsStockTable(txs) == \A i \in 1..Len(txs) : "stock_name" \in DOMAIN txs[i]

IsLedgerTable(txs) == \A i \in 1..Len(txs) : "stock_name" \notin DOMAIN txs[i]

\* String(txn.account_type || '').trim().toUpperCase()
ToUpperCase(t) ==
    CASE t \in {"etf", "Etf", "ETF"} -> "ETF"
      [] t \in {"regular", "Regular"} -> "REGULAR"
      [] OTHER -> t

\* One iteration of transactions.forEach.
StockApply(aggregated, txn) ==
    IF txn.stock_name = <<>> THEN aggregated
    ELSE IF txn.sell_date # NoDate THEN aggregated
    ELSE
        LET accountName == Trim(txn.account_name)
            accountType == ToUpperCase(txn.account_type)
            stockName == Trim(txn.stock_name)
            key == accountName \o <<"||", accountType, "||">> \o stockName
            present == \E k \in 1..Len(aggregated) : aggregated[k].key = key
            opened == IF present THEN aggregated
                      ELSE Append(aggregated,
                                  [key |-> key, accountName |-> accountName,
                                   accountType |-> accountType, stockName |-> stockName,
                                   quantity |-> 0, invested |-> 0])
        IN  [k \in 1..Len(opened) |->
                IF opened[k].key # key THEN opened[k]
                ELSE [opened[k] EXCEPT !.quantity = @ + txn.quantity,
                                       !.invested = @ + txn.quantity * txn.buy_price]]

\* aggregated.forEach: one holding per entry with a quantity.
StockLotHolding(entry, cmpMap) ==
    LET cmp == CmpOf(cmpMap, entry.stockName)
        marketValue == entry.quantity * cmp
        profit == marketValue - entry.invested
    IN  [stockName |-> entry.stockName,
         accountType |-> entry.accountType,
         accountName |-> Trim(entry.accountName),
         quantity |-> entry.quantity,
         invested |-> entry.invested,
         marketValue |-> marketValue,
         profit |-> profit,
         profitPercent |->
             IF entry.invested > Eps THEN Fraction(100 * profit, entry.invested) ELSE Zero,
         cmp |-> cmp]

StockLotHoldings(aggregated, cmpMap) ==
    LET held == SelectSeq(aggregated, LAMBDA entry : entry.quantity # 0)
    IN  [k \in 1..Len(held) |-> StockLotHolding(held[k], cmpMap)]

\* const aggregated = new Map(), const lotsByFund = new Map() and
\* const lotsByScheme = new Map(): made by each call.
NewMap_ModuleLevel ==
    IF called = "stock" THEN balances
    ELSE IF called = "mf" THEN lotsByFund
    ELSE lotsByScheme

NewMap == <<>>

CallStock ==
    /\ pc = "input"
    /\ pc' = "stock"
    /\ called' = "stock"
    /\ work' = transactions
    /\ idx' = 1
    /\ UNCHANGED <<transactions, returned, balances, outsideDeposits>>

StepStock ==
    /\ pc = "stock"
    /\ idx <= Len(work)
    /\ balances' = StockApply(balances, work[idx])
    /\ idx' = idx + 1
    /\ UNCHANGED <<transactions, pc, called, work, returned, outsideDeposits>>

ReturnStock ==
    /\ pc = "stock"
    /\ idx > Len(work)
    /\ result' = StockData(StockLotHoldings(balances, fundMaster))
    /\ pc' = "done"
    /\ UNCHANGED <<transactions, called, work, idx, balances, returned,
                   fundMaster, lotsByFund, lotsByScheme, funds, solverState,
                   serverState>>

\* The same function is called once more with the same array and price map.
FirstResult(rows, value) == [kind |-> "first", rows |-> rows, value |-> value]

CallAgain ==
    /\ pc = "done"
    /\ returned = NotReturned
    /\ called \in {"stock", "mf", "nps"}
    /\ returned' = FirstResult(transactions, result)
    /\ pc' = called
    /\ work' = IF called = "stock" THEN transactions
               ELSE IF called = "mf" THEN MFPrepare(transactions)
               ELSE NPSPrepare(transactions)
    /\ idx' = 1
    /\ balances' = IF called = "stock" THEN NewMap ELSE balances
    /\ lotsByFund' = IF called = "mf" THEN NewMap ELSE lotsByFund
    /\ lotsByScheme' = IF called = "nps" THEN NewMap ELSE lotsByScheme
    /\ UNCHANGED <<transactions, fundMaster, called, funds, result, solverState,
                   serverState>>

\* Open and sold positions of one stock held as shares and as an ETF, and a
\* row without a stock name.
StockRows ==
    { StockRow(stock_name, A1 \o <<" ">>, account_type, quantity, 10, sell_date) :
        stock_name \in {F, <<>>}, account_type \in {"etf", "Regular"},
        quantity \in {0, 5}, sell_date \in {NoDate, 1} }

MaxTwiceTxns == 2

NextTwice ==
    \/ (IsLedgerTable(transactions) /\ AddTxn(LedgerRows, MaxTwiceTxns))
    \/ (IsStockTable(transactions) /\ AddTxn(StockRows, MaxTwiceTxns))
    \/ (IsStockTable(transactions) /\ CallStock) \/ StepStock \/ ReturnStock
    \/ (IsLedgerTable(transactions) /\ CallMF) \/ StepMF \/ ReturnMF
    \/ (IsLedgerTable(transactions) /\ CallNPS) \/ StepNPS \/ ReturnNPS
    \/ CallAgain

SpecTwice == Init /\ [][NextTwice]_vars

ApplyRow(kind, acc, row) ==
    CASE kind = "stock" -> StockApply(acc, row)
      [] kind = "nps" -> NPSApply(acc, row)
      [] kind = "ppf" -> ApplyToKey(acc, row, FALSE)
      [] kind = "fd" -> ApplyToKey(acc, row, TRUE)
      [] kind = "epf" -> EPFApply(acc, row)

RECURSIVE ApplyRows(_, _, _)
ApplyRows(kind, acc, rows) ==
    IF rows = <<>> THEN acc
    ELSE ApplyRows(kind, ApplyRow(kind, acc, Head(rows)), Tail(rows))

calculateStockLots(txs, cmpMap) ==
    StockData(StockLotHoldings(ApplyRows("stock", <<>>, txs), cmpMap))

calculateNPSHoldings(txs, cmpMap) ==
    LedgerData(NPSHoldings(ApplyRows("nps", <<>>, NPSPrepare(txs)), cmpMap))

RECURSIVE BankApplyGroups(_, _, _)
BankApplyGroups(sums, groups, latestMonthNumeric) ==
    IF groups = <<>> THEN sums
    ELSE BankApplyGroups(BankApplyGroup(sums, Head(groups), latestMonthNumeric),
                         Tail(groups), latestMonthNumeric)

calculateBankHoldings(txs) ==
    LET filtered == BankFiltered(txs)
    IN  IF txs = <<>> \/ filtered = <<>> \/ LatestMonth(filtered) < 0
        THEN BankTotals(0, 0)
        ELSE LET sums == BankApplyGroups([savingsSum |-> 0, dematSum |-> 0],
                                         BankGroups(filtered), LatestMonth(filtered))
             IN  BankTotals(sums.savingsSum, sums.dematSum)

calculatePPFHoldings(txs) ==
    LET keyed == Keyed(txs, FALSE)
        bs == ApplyRows("ppf", OpenBalances(keyed), DepositWork(keyed))
    IN  Holdings(SumField(bs, "invested"), SumField(bs, "interest"))

calculateFDHoldings(txs) ==
    IF txs = <<>> THEN Holdings(0, 0)
    ELSE LET keyed == Keyed(txs, TRUE)
             bs == ApplyRows("fd", OpenBalances(keyed), DepositWork(keyed))
         IN  Holdings(SumSeq([k \in 1..Len(bs) |-> Max(bs[k].invested, 0)]),
                      SumSeq([k \in 1..Len(bs) |-> Max(bs[k].interest, 0)]))

calculateEPFHoldings(txs) ==
    LET sums == ApplyRows("epf", [deposits |-> 0, interest |-> 0, withdrawal |-> 0], txs)
    IN  EPFHoldings(sums.deposits, sums.interest, sums.withdrawal)

\* buildCMPMaps: a Map from the trimmed name of each master row to its prices.
buildCMPMap(rows) ==
    [n \in { Trim(rows[i].name) : i \in 1..Len(rows) } |->
        LET last == CHOOSE i \in 1..Len(rows) :
                        /\ Trim(rows[i].name) = n
                        /\ \A j \in (i + 1)..Len(rows) : Trim(rows[j].name) # n
        IN  [cmp |-> rows[last].cmp, lcp |-> rows[last].lcp]]

\* The tables of fetchUserAllData and the rows they hold.
Tables ==
    { "stock_transactions", "stock_master", "mf_transactions", "fund_master",
      "bank_transactions", "epf_transactions", "ppf_transactions",
      "nps_transactions", "nps_pension_fund_master", "equity_charges" }

E == <<"E">>
S == <<"S">>

MasterRow(name, cmp, lcp) == [name |-> name, cmp |-> cmp, lcp |-> lcp]

TableRows(tableName) ==
    CASE tableName = "stock_transactions" ->
             << StockRow(F, A1, "Regular", 5, 10, NoDate),
                StockRow(E, A1, "etf", 5, 10, NoDate) >>
      [] tableName = "stock_master" -> << MasterRow(F, 12, 11), MasterRow(E, 12, 11) >>
      [] tableName = "mf_transactions" -> << Row(F, A1, "Buy", 3 * One, 5, 1) >>
      [] tableName = "fund_master" -> << MasterRow(F, 15, 14) >>
      [] tableName = "bank_transactions" -> << BankRow(A1, B, "Savings", 101, 100) >>
      [] tableName = "epf_transactions" -> << EPFRow("Contribution", 60, 40, 0) >>
      [] tableName = "ppf_transactions" ->
             << DepositRow(A1, B, "Deposit", 100, 1) @@ [account_type |-> "PPF"],
                DepositRow(A1, B, "Deposit", 50, 1) @@ [account_type |-> "FD"] >>
      [] tableName = "nps_transactions" -> << Row(S, A1, "Buy", 2 * One, 5, 1) >>
      [] tableName = "nps_pension_fund_master" -> << MasterRow(S, 15, 14) >>
      [] tableName = "equity_charges" -> << [other_charges |-> 7, dp_charges |-> 3] >>

\* What batchFetchTables resolves to when the fetches of the tables in
\* failed return an error, or no rows: fetchAllRows turns an error into
\* {data: [], error}.
fetchUserAllData(failed, outcome) ==
    [tableName \in Tables |->
        IF tableName \in failed
        THEN [data |-> <<>>, error |-> outcome = "error"]
        ELSE [data |-> TableRows(tableName), error |-> FALSE]]

\* getDashboardAssetAllocation up to the asset rows.
DashboardData(data) ==
    LET ofType(type) ==
            SelectSeq(data["ppf_transactions"].data,
                      LAMBDA txn : ToLowerCase(txn.account_type) = type)
        charges == data["equity_charges"].data
    IN  [stockData |-> calculateStockLots(data["stock_transactions"].data,
                                          buildCMPMap(data["stock_master"].data)),
         mfData |-> LedgerData(calculateMFLots(data["mf_transactions"].data,
                                               buildCMPMap(data["fund_master"].data))),
         bankData |-> calculateBankHoldings(data["bank_transactions"].data),
         ppfData |-> calculatePPFHoldings(ofType("ppf")),
         fdData |-> calculateFDHoldings(ofType("fd")),
         epfData |-> calculateEPFHoldings(data["epf_transactions"].data),
         npsData |-> calculateNPSHoldings(data["nps_transactions"].data,
                         buildCMPMap(data["nps_pension_fund_master"].data)),
         totalEquityCharges |->
             SumSeq([i \in 1..Len(charges) |->
                       charges[i].other_charges + charges[i].dp_charges]),
         fetched |-> data]

FetchOutcomes == {"error", "empty"}

GetDashboardFromTables ==
    \E failed \in SUBSET Tables, outcome \in FetchOutcomes :
        GetDashboardAssetAllocation({DashboardData(fetchUserAllData(failed, outcome))})

NextDegraded == GetDashboardFromTables

SpecDegraded == Init /\ [][NextDegraded]_vars

\* ------------------------------------------- claims on the degraded mode
\* The tables an asset class is computed from.
FedBy(assetType) ==
    CASE assetType = "Stock" -> {"stock_transactions", "stock_master", "equity_charges"}
      [] assetType = "ETF" -> {"stock_transactions", "stock_master"}
      [] assetType = "MF" -> {"mf_transactions", "fund_master"}
      [] assetType = "Bank" -> {"bank_transactions"}
      [] assetType = "PPF" -> {"ppf_transactions"}
      [] assetType = "FD" -> {"ppf_transactions"}
      [] assetType = "EPF" -> {"epf_transactions"}
      [] assetType = "NPS" -> {"nps_transactions", "nps_pension_fund_master"}

FailedTables(data) == { t \in Tables : data[t].data = <<>> }

AllFetched ==
    LET data == DashboardData(fetchUserAllData({}, "error"))
    IN  AssetRows(data, StockInvestedValue(data.stockData, data.totalEquityCharges),
                  NoDayChange)

\* C23: for every subset of the contributing tables whose fetch fails or
\* returns no rows, getDashboardAssetAllocation returns its rows and summary;
\* the asset classes fed by the failed tables contribute 0 and the other
\* asset classes have the values they have when all fetches succeed.
C23_DegradedMode ==
    (DashboardReturned /\ "fetched" \in DOMAIN work[1]) =>
        LET failed == FailedTables(work[1].fetched)
            rows == returned.rows
        IN  /\ Len(rows) = 8
            /\ \A i \in 1..Len(rows) :
                  IF FedBy(rows[i].assetType) \cap failed # {}
                  THEN rows[i].marketValue = 0 /\ rows[i].investedValue = 0
                  ELSE /\ rows[i].marketValue = AllFetched[i].marketValue
                       /\ rows[i].investedValue = AllFetched[i].investedValue
                       /\ rows[i].simpleProfit = AllFetched[i].simpleProfit

\* ================================================================ cache
\*   CacheStore       src/src/middleware/cache.js
\*
\* store and timers are the two Maps; timeouts are the timers of the runtime,
\* a handle being the position of its timer: [key, due, state], state
\* "pending", "cleared" (clearTimeout) or "fired".  Time is in minutes.
outsideServer ==
    <<transactions, pc, called, work, idx, ledgerState, solverState, returned, balances>>

Without(map, key) == [k \in DOMAIN map \ {key} |-> map[k]]

With(map, key, value) == [k \in DOMAIN map \cup {key} |-> IF k = key THEN value ELSE map[k]]

\* clearTimeout(handle)
ClearTimeout(timeouts, handle) ==
    [h \in 1..Len(timeouts) |->
        IF h = handle /\ timeouts[h].state = "pending"
        THEN [timeouts[h] EXCEPT !.state = "cleared"]
        ELSE timeouts[h]]

\* if (this.timers.has(key)) in set
SetClears_Never(c, key) == FALSE

SetClears(c, key) == key \in DOMAIN c.timers

\* set(key, value, ttlMinutes) at time now
CacheSet(c, key, value, ttlMinutes, now) ==
    LET cleared == IF SetClears(c, key) THEN ClearTimeout(c.timeouts, c.timers[key])
                   ELSE c.timeouts
        timer == Len(cleared) + 1
    IN  [store |-> With(c.store, key, value),
         timers |-> With(c.timers, key, timer),
         timeouts |-> Append(cleared, [key |-> key, due |-> now + ttlMinutes,
                                       state |-> "pending"])]

\* get(key): the value, or null (no value of the model is falsy)
CacheGet(c, key) == IF key \in DOMAIN c.store THEN c.store[key] ELSE Null

\* delete(key)
CacheDelete(c, key) ==
    [store |-> Without(c.store, key),
     timers |-> Without(c.timers, key),
     timeouts |-> IF key \in DOMAIN c.timers THEN ClearTimeout(c.timeouts, c.timers[key])
                  ELSE c.timeouts]

\* clear(): every timer of the Map is cleared
CacheClear(c) ==
    [store |-> <<>>,
     timers |-> <<>>,
     timeouts |-> [h \in 1..Len(c.timeouts) |->
                     IF (\E k \in DOMAIN c.timers : c.timers[k] = h)
                        /\ c.timeouts[h].state = "pending"
                     THEN [c.timeouts[h] EXCEPT !.state = "cleared"]
                     ELSE c.timeouts[h]]]

\* The callback of the timer: store.delete(key), timers.delete(key)
CacheExpire(c, handle) ==
    [store |-> Without(c.store, c.timeouts[handle].key),
     timers |-> Without(c.timers, c.timeouts[handle].key),
     timeouts |-> [c.timeouts EXCEPT ![handle].state = "fired"]]

\* stats().keys
CacheKeys(c) == DOMAIN c.store

MaxTimers == 3
MaxClock == 4

Set(keys, values, ttls) ==
    /\ Len(cache.timeouts) < MaxTimers
    /\ \E key \in keys, value \in values, ttlMinutes \in ttls :
          cache' = CacheSet(cache, key, value, ttlMinutes, clock)
    /\ UNCHANGED <<clock, requests, database, outsideServer>>

Delete(keys) ==
    /\ \E key \in keys : cache' = CacheDelete(cache, key)
    /\ UNCHANGED <<clock, requests, database, outsideServer>>

Clear ==
    /\ cache' = CacheClear(cache)
    /\ UNCHANGED <<clock, requests, database, outsideServer>>

\* A pending timer that is due runs its callback.
Expire ==
    /\ \E handle \in 1..Len(cache.timeouts) :
          /\ cache.timeouts[handle].state = "pending"
          /\ cache.timeouts[handle].due <= clock
          /\ cache' = CacheExpire(cache, handle)
    /\ UNCHANGED <<clock, requests, database, outsideServer>>

\* A minute passes; the timers that are due have run.
Tick ==
    /\ clock < MaxClock
    /\ \A handle \in 1..Len(cache.timeouts) :
          cache.timeouts[handle].state = "pending" => cache.timeouts[handle].due > clock
    /\ clock' = clock + 1
    /\ UNCHANGED <<cache, requests, database, outsideServer>>

\* `${req.method}:${req.path}:${JSON.stringify(req.query || {})}`, no query
CacheKey(method, path) == <<method, ":", path, ":", "{}">>

StoreKeys == {CacheKey("GET", "/open"), CacheKey("GET", "/etf")}
StoreValues == {"a", "b"}
StoreTtls == {1, 2}

NextCacheStore ==
    \/ Set(StoreKeys, StoreValues, StoreTtls)
    \/ Delete(StoreKeys)
    \/ Clear
    \/ Expire
    \/ Tick

SpecCacheStore == Init /\ [][NextCacheStore]_vars

\* ------------------------------------------------- claims on CacheStore
PendingFor(key) ==
    { h \in 1..Len(cache.timeouts) :
        cache.timeouts[h].key = key /\ cache.timeouts[h].state = "pending" }

\* C25: after any sequence of set, delete, clear and timer expiry a key is in
\* the store exactly when it has one pending expiry timer, and it has no
\* other; that timer is the one armed by the most recent set of the key, so
\* the entry is removed no later than its TTL after that set and a timer
\* armed by an earlier set never removes the value of a later one.
C25_BoundedLifetime ==
    \A key \in StoreKeys :
        /\ DOMAIN cache.store = DOMAIN cache.timers
        /\ key \in DOMAIN cache.store <=> Cardinality(PendingFor(key)) = 1
        /\ key \notin DOMAIN cache.store => PendingFor(key) = {}
        /\ key \in DOMAIN cache.store =>
              /\ PendingFor(key) = {cache.timers[key]}
              /\ \A h \in 1..Len(cache.timeouts) :
                    cache.timeouts[h].key = key => h <= cache.timers[key]
              /\ clock <= cache.timeouts[cache.timers[key]].due

\* A key set again: its first timer was cleared and its due time has passed,
\* the value of the second set is still stored.
C25_Witness ==
    \E key \in StoreKeys :
        /\ key \in DOMAIN cache.store
        /\ \E h \in 1..Len(cache.timeouts) :
              /\ cache.timeouts[h].key = key
              /\ cache.timeouts[h].state = "cleared"
              /\ cache.timeouts[h].due < clock
        /\ \E h \in 1..Len(cache.timeouts) : cache.timeouts[h].state = "fired"

\* =============================================================== routes
\*   cacheMiddleware                     src/src/middleware/cache.js
\*   router.get('/open'), ('/etf')       src/src/routes/stocks.js
\*   router.post('/bulk-update-account') src/src/routes/stocks.js
\*
\* A request is [method, path, user, pc, read, response, updatesBefore]: user
\* is whether req.user.id is set, read is what the service call resolved to,
\* updatesBefore the bulk updates that had been answered when it arrived.
\* database counts the updates written, and the data a service reads carries
\* that count as its version.
MaxRequests == 3

CACHE_TTL == 5

NoResponse == [status |-> 0, hit |-> FALSE, body |-> Null]

Data(version) == [error |-> FALSE, version |-> version]

ErrorBody == [error |-> TRUE, version |-> 0]

Request(method, path, user, updatesBefore) ==
    [method |-> method, path |-> path, user |-> user,
     pc |-> IF method = "GET" THEN "cacheMiddleware" ELSE "handler",
     read |-> Null, response |-> NoResponse, updatesBefore |-> updatesBefore]

CompletedUpdates ==
    Cardinality({ i \in 1..Len(requests) :
                    /\ requests[i].method = "POST"
                    /\ requests[i].pc = "done"
                    /\ requests[i].response.status = 200 })

GetPaths == {"/open", "/etf"}

Arrive ==
    /\ Len(requests) < MaxRequests
    /\ \E user \in BOOLEAN :
          \/ \E path \in GetPaths :
                requests' = Append(requests, Request("GET", path, user, CompletedUpdates))
          \/ requests' = Append(requests, Request("POST", "/bulk-update-account", user,
                                                  CompletedUpdates))
    /\ UNCHANGED <<cache, clock, database, outsideServer>>

\* res.json of a GET request that passed cacheMiddleware: cache.set, then the
\* original json.
ResJson(c, key, status, data, now) == CacheSet(c, key, data, CACHE_TTL, now)

Respond(i, status, hit, body) ==
    [requests EXCEPT ![i].pc = "done",
                     ![i].response = [status |-> status, hit |-> hit, body |-> body]]

\* cacheMiddleware of a GET request: answered from the cache, or passed on.
CacheMiddleware ==
    /\ \E i \in 1..Len(requests) :
          /\ requests[i].pc = "cacheMiddleware"
          /\ LET cached == CacheGet(cache, CacheKey(requests[i].method, requests[i].path))
             IN  IF cached # Null
                 THEN requests' = Respond(i, 200, TRUE, cached)
                 ELSE requests' = [requests EXCEPT ![i].pc = "handler"]
    /\ UNCHANGED <<cache, clock, database, outsideServer>>

\* The GET handler up to its await: 401 without a user id.
GetHandler ==
    /\ \E i \in 1..Len(requests) :
          /\ requests[i].pc = "handler"
          /\ requests[i].method = "GET"
          /\ IF ~requests[i].user
             THEN /\ cache' = ResJson(cache, CacheKey("GET", requests[i].path), 401,
                                      ErrorBody, clock)
                  /\ requests' = Respond(i, 401, FALSE, ErrorBody)
             ELSE /\ requests' = [requests EXCEPT ![i].pc = "fetching"]
                  /\ UNCHANGED cache
    /\ UNCHANGED <<clock, database, outsideServer>>

\* The service reads the tables, or fails.
GetFetch ==
    /\ \E i \in 1..Len(requests) :
          /\ requests[i].pc = "fetching"
          /\ \E data \in {Data(database), ErrorBody} :
                requests' = [requests EXCEPT ![i].pc = "fetched", ![i].read = data]
    /\ UNCHANGED <<cache, clock, database, outsideServer>>

\* After the await: res.json(data), or res.status(500).json in the catch.
GetRespond ==
    /\ \E i \in 1..Len(requests) :
          /\ requests[i].pc = "fetched"
          /\ LET status == IF requests[i].read.error THEN 500 ELSE 200
             IN  /\ cache' = ResJson(cache, CacheKey("GET", requests[i].path), status,
                                     requests[i].read, clock)
                 /\ requests' = Respond(i, status, FALSE, requests[i].read)
    /\ UNCHANGED <<clock, database, outsideServer>>

\* The POST handler up to its await; the body names a stock and a type.
PostHandler ==
    /\ \E i \in 1..Len(requests) :
          /\ requests[i].pc = "handler"
          /\ requests[i].method = "POST"
          /\ IF ~requests[i].user
             THEN requests' = Respond(i, 401, FALSE, ErrorBody)
             ELSE requests' = [requests EXCEPT ![i].pc = "updating"]
    /\ UNCHANGED <<cache, clock, database, outsideServer>>

\* bulkUpdateAccountType writes the rows, or fails.
PostUpdate ==
    /\ \E i \in 1..Len(requests) :
          /\ requests[i].pc = "updating"
          /\ \/ /\ database' = database + 1
                /\ requests' = [requests EXCEPT ![i].pc = "updated"]
             \/ /\ requests' = Respond(i, 500, FALSE, ErrorBody)
                /\ UNCHANGED database
    /\ UNCHANGED <<cache, clock, outsideServer>>

\* key.includes('/open:') || ... || key.includes('/free-stocks:')
IsStockKey(key) ==
    \E j \in 1..(Len(key) - 1) :
        /\ key[j] \in {"/open", "/closed", "/etf", "/portfolio", "/free-stocks"}
        /\ key[j + 1] = ":"

RECURSIVE DeleteKeys(_, _)
DeleteKeys(c, keys) ==
    IF keys = {} THEN c
    ELSE LET key == CHOOSE key \in keys : TRUE
         IN  DeleteKeys(CacheDelete(c, key), keys \ {key})

\* After the await: the stock keys are deleted and the result is sent.
PostInvalidate ==
    /\ \E i \in 1..Len(requests) :
          /\ requests[i].pc = "updated"
          /\ cache' = DeleteKeys(cache, { key \in CacheKeys(cache) : IsStockKey(key) })
          /\ requests' = Respond(i, 200, FALSE, Data(database))
    /\ UNCHANGED <<clock, database, outsideServer>>

NextRoutes ==
    \/ Arrive
    \/ CacheMiddleware
    \/ GetHandler \/ GetFetch \/ GetRespond
    \/ PostHandler \/ PostUpdate \/ PostInvalidate

SpecRoutes == Init /\ [][NextRoutes]_vars

\* ---------------------------------------------------- claims on routes
\* C24: once a bulk account-type update has completed, no later GET of the
\* stock endpoints is answered from a cache entry computed from pre-update
\* data, under every interleaving of the update with GET requests that were
\* in flight when it started.
C24_InvalidatedOnUpdate ==
    \A i \in 1..Len(requests) :
        (/\ requests[i].method = "GET"
         /\ requests[i].pc = "done"
         /\ requests[i].response.hit
         /\ ~requests[i].response.body.error) =>
            requests[i].response.body.version >= requests[i].updatesBefore

\* C28: a GET whose handler responds with an error status (401 or 500 sent
\* through res.json) leaves no cache entry, and no later GET is answered from
\* the cache with an error body.
C28_ErrorsNotCached ==
    /\ \A key \in DOMAIN cache.store : ~cache.store[key].error
    /\ \A i \in 1..Len(requests) :
          requests[i].response.hit => ~requests[i].response.body.error

\* ===================================================== composite keys
\*   calculateMFLots       src/src/services/lotCalculator.js
\*   calculateNPSHoldings  src/src/services/aggregationService.js
\*
\* Buys of three instruments in two accounts; one instrument and one account
\* have the key delimiter in their name, and every instrument has a price.
X == <<"X">>

XY == <<"X", "||", "Y">>

YA1 == <<"Y", "||">> \o A1

DelimiterRows ==
    { Row(name, account, "Buy", units, 5, 1) :
        name \in {F, X, XY}, account \in {A1, YA1}, units \in {3 * One, 5 * One} }

DelimiterMasters ==
    { [n \in {F, X, XY} |->
          [cmp |-> IF n = F THEN 15 ELSE IF n = X THEN 12 ELSE 20, lcp |-> 10]] }

MaxDelimiterTxns == 2

InitDelimiter == InitWith(DelimiterMasters)

NextDelimiter ==
    \/ AddTxn(DelimiterRows, MaxDelimiterTxns)
    \/ CallMF \/ StepMF \/ ReturnMF
    \/ CallNPS \/ StepNPS \/ ReturnNPS

SpecDelimiter == InitDelimiter /\ [][NextDelimiter]_vars

\* ------------------------------------------- claims on composite keys
PairOf(row) == <<Trim(row.name), Trim(row.account)>>

PairsOf(txs) == { PairOf(txs[i]) : i \in 1..Len(txs) }

UnitsOfPair(txs, pair) ==
    SumSeq([i \in 1..Len(txs) |-> IF PairOf(txs[i]) = pair THEN txs[i].units ELSE 0])

\* C26: distinct (instrument, account) pairs never share a ledger, and every
\* holding is reported under its original instrument and account name and
\* valued at that instrument's price, also when a name contains the key
\* delimiter "||".
C26_NoDelimiterCollision ==
    (pc = "done" /\ called \in {"mf", "nps"}) =>
        /\ Len(result.holdings) = Cardinality(PairsOf(transactions))
        /\ \A pair \in PairsOf(transactions) :
              \E k \in 1..Len(result.holdings) :
                  /\ result.holdings[k].fundName = pair[1]
                  /\ result.holdings[k].accountName = pair[2]
                  /\ result.holdings[k].units = UnitsOfPair(transactions, pair)
                  /\ result.holdings[k].cmp = CmpOf(fundMaster, pair[1])
                  /\ result.holdings[k].marketValue
                       = UnitsOfPair(transactions, pair) * CmpOf(fundMaster, pair[1])

\* ============================================================== fetches
\*   fetchAllRows      src/src/db/queries.js
\*   batchFetchTables  src/src/db/queries.js
\*
\* transactions holds the tables (a row is <<table, number>>), work the
\* running fetchAllRows call of each table: [limit, chunkSize, pc, from,
\* results, ranges, result, order], ranges being the ranges requested so far
\* and order the position of its .then callback among the callbacks run.
\* returned is the results object of batchFetchTables.  chunkSize 0 and
\* limit 0 stand for an option that is not given.
MaxRows == 3

DEFAULT_CHUNK_SIZE == 3

Unlimited == 99

BatchTables == {"stock_transactions", "fund_master"}

TableOf(tableName, size) == [i \in 1..size |-> <<tableName, i>>]

\* Number.isInteger(chunkSize) && chunkSize > 0 ? chunkSize : 1000
effectiveChunkSize(options) ==
    IF options.chunkSize > 0 THEN options.chunkSize ELSE DEFAULT_CHUNK_SIZE

\* Number.isInteger(limit) && limit > 0 ? limit : Infinity
maxRows(options) == IF options.limit > 0 THEN options.limit ELSE Unlimited

NewFetch(options) ==
    [limit |-> options.limit, chunkSize |-> options.chunkSize, pc |-> "loop",
     from |-> 0, results |-> <<>>, ranges |-> <<>>, result |-> Null, order |-> 0]

\* remaining of the iteration that is about to run
Remaining(fetch) ==
    IF maxRows(fetch) = Unlimited THEN effectiveChunkSize(fetch)
    ELSE Min(effectiveChunkSize(fetch), maxRows(fetch) - Len(fetch.results))

\* .range(from, to) on the table: the rows from..to, counted from 0
Range(table, from, to) == SubSeq(table, from + 1, Min(to + 1, Len(table)))

\* from += remaining
NextFrom_Overlapping(from, remaining) == from + remaining - 1

NextFrom(from, remaining) == from + remaining

Resolved(data, error) == [data |-> data, error |-> error]

\* One iteration of the while loop, the query answering with rows, with an
\* error, or throwing; the loop condition is tested again before the next
\* await.
Iterate(fetch, table, outcome) ==
    LET remaining == Remaining(fetch)
        to == fetch.from + remaining - 1
        data == Range(table, fetch.from, to)
        asked == [fetch EXCEPT !.ranges = Append(@, [from |-> fetch.from, to |-> to])]
        settle(f, value) == [f EXCEPT !.pc = "settled", !.result = value]
        pushed == [asked EXCEPT !.results = @ \o data]
        advanced == [pushed EXCEPT !.from = NextFrom(fetch.from, remaining)]
    IN  IF outcome # "rows" THEN settle(asked, Resolved(<<>>, TRUE))
        ELSE IF data = <<>> THEN settle(asked, Resolved(asked.results, FALSE))
        ELSE IF Len(data) < remaining THEN settle(pushed, Resolved(pushed.results, FALSE))
        ELSE IF Len(advanced.results) < maxRows(advanced) /\ Remaining(advanced) > 0
        THEN advanced
        ELSE settle(advanced, Resolved(advanced.results, FALSE))

\* Promise.all(promises): every promise is fulfilled
AllSettled_Any(fetches) == \E t \in DOMAIN fetches : fetches[t].pc = "stored"

AllSettled(fetches) == \A t \in DOMAIN fetches : fetches[t].pc = "stored"

FetchOptions == { [limit |-> limit, chunkSize |-> chunkSize] :
                    limit \in {0, 1, 2, 4}, chunkSize \in {0, 1, 2} }

\* batchFetchTables: a fetchAllRows call per entry of queries.
CallBatch ==
    /\ pc = "input"
    /\ pc' = "batch"
    /\ called' = "batchFetchTables"
    /\ \E size \in 0..MaxRows, other \in {0, MaxRows} :
          transactions' = [t \in BatchTables |->
                              TableOf(t, IF t = "stock_transactions" THEN size ELSE other)]
    /\ \E options \in FetchOptions :
          work' = [t \in BatchTables |->
                      NewFetch(IF t = "stock_transactions" THEN options
                               ELSE [limit |-> 0, chunkSize |-> 2])]
    /\ returned' = [kind |-> "batch", results |-> <<>>, resolved |-> FALSE]
    /\ idx' = 0
    /\ UNCHANGED <<balances, outsideDeposits>>

FetchOutcomeKinds == {"rows", "error", "throw"}

FetchPage ==
    /\ pc = "batch"
    /\ \E t \in DOMAIN work, outcome \in FetchOutcomeKinds :
          /\ work[t].pc = "loop"
          /\ work' = [work EXCEPT ![t] = Iterate(work[t], transactions[t], outcome)]
    /\ UNCHANGED <<transactions, pc, called, idx, returned, balances, outsideDeposits>>

\* .then((result) => { results[tableName] = result; })
Then ==
    /\ pc = "batch"
    /\ \E t \in DOMAIN work :
          /\ work[t].pc = "settled"
          /\ work' = [work EXCEPT ![t].pc = "stored", ![t].order = idx + 1]
          /\ returned' = [returned EXCEPT !.results = With(returned.results, t, work[t].result)]
    /\ idx' = idx + 1
    /\ UNCHANGED <<transactions, pc, called, balances, outsideDeposits>>

\* await Promise.all(promises); return results
ReturnBatch ==
    /\ pc = "batch"
    /\ AllSettled(work)
    /\ returned' = [returned EXCEPT !.resolved = TRUE]
    /\ pc' = "done"
    /\ UNCHANGED <<transactions, called, work, idx, balances, outsideDeposits>>

NextFetch == CallBatch \/ FetchPage \/ Then \/ ReturnBatch

SpecFetch == Init /\ [][NextFetch]_vars

\* ---------------------------------------------------- claims on fetches
Failed(fetch) == fetch.result # Null /\ fetch.result.error

\* C27: batchFetchTables resolves only after every requested fetch has
\* settled and returns exactly one {data, error} entry per requested table,
\* each holding that table's own result, whatever the order in which the
\* fetches complete; a fetch that fails yields {data: [], error} for its
\* table and alters no other entry.
C27_OneEntryPerTable ==
    (pc # "input" /\ called = "batchFetchTables" /\ returned.resolved) =>
        /\ DOMAIN returned.results = BatchTables
        /\ \A t \in BatchTables :
              /\ work[t].pc = "stored"
              /\ returned.results[t] = work[t].result
              /\ \A k \in 1..Len(returned.results[t].data) :
                    returned.results[t].data[k][1] = t
              /\ Failed(work[t]) => returned.results[t] = Resolved(<<>>, TRUE)
              /\ ~Failed(work[t]) =>
                    returned.results[t].data
                        = SubSeq(transactions[t], 1, Min(Len(transactions[t]), maxRows(work[t])))

\* The fetch of the first table failed and completed last; the other
\* returned its rows.
C27_Witness ==
    /\ pc = "done"
    /\ called = "batchFetchTables"
    /\ returned.resolved
    /\ Failed(work["stock_transactions"])
    /\ work["stock_transactions"].order = 2
    /\ Len(work["stock_transactions"].ranges) = 2
    /\ Len(returned.results["fund_master"].data) = MaxRows

\* C30: fetchAllRows requests consecutive, non-overlapping row ranges
\* starting at 0, stops at the first page that is empty or shorter than
\* requested or once limit rows are collected, never returns more than limit
\* rows, and ends after at most one page more than the table has rows; if a
\* page returns an error or the query throws, it resolves to
\* {data: [], error}, never to a partial row list.
C30_Pagination ==
    (pc # "input" /\ called = "batchFetchTables") =>
        \A t \in BatchTables :
            LET fetch == work[t]
                ranges == fetch.ranges
                table == transactions[t]
            IN  /\ ranges # <<>> => ranges[1].from = 0
                /\ \A k \in 1..Len(ranges) : ranges[k].to >= ranges[k].from
                /\ \A k \in 1..(Len(ranges) - 1) :
                      /\ ranges[k + 1].from = ranges[k].to + 1
                      /\ ranges[k].to < Len(table)
                      /\ ranges[k].to + 1 < maxRows(fetch)
                /\ Len(ranges) <= Len(table) + 1
                /\ Len(fetch.results) <= maxRows(fetch)
                /\ fetch.results = SubSeq(table, 1, Len(fetch.results))
                /\ fetch.result # Null =>
                      IF fetch.result.error THEN fetch.result.data = <<>>
                      ELSE /\ fetch.result.data
                                = SubSeq(table, 1, Min(Len(table), maxRows(fetch)))
                           /\ fetch.limit > 0 => Len(fetch.result.data) <= fetch.limit

\* Three rows fetched in two pages with a limit, and a table without rows.
C30_Witness ==
    /\ pc = "done"
    /\ called = "batchFetchTables"
    /\ \E t \in BatchTables :
          /\ work[t].limit = 4
          /\ Len(work[t].ranges) = 2
          /\ ~Failed(work[t])
          /\ Len(work[t].result.data) = 3
    /\ \E t \in BatchTables : transactions[t] = <<>> /\ ~Failed(work[t])

\* ------------------------------------- claims on the dashboard's profit
\* C29: in the result of getDashboardAssetAllocation summary.totalProfit
\* (total market value minus total invested value) equals the sum of the
\* rows' simpleProfit, for every combination of asset-class inputs,
\* retirement-fund withdrawals that exceed deposits and a non-zero equity
\* charges total included.
C29_ProfitAddsUp ==
    DashboardReturned =>
        /\ returned.summary.totalProfit
             = returned.summary.totalMarketValue - returned.summary.totalInvestedValue
        /\ returned.summary.totalProfit = SumField(returned.rows, "simpleProfit")

====
